---------------------------- MODULE Spec2Model ----------------------------
(***************************************************************************)
(* Product comparison agent: the compare-products route (POST,             *)
(* scrapeProductDataWithFallback, createIntelligentFallback,               *)
(* mergeProductData) and the scrapers it drives.                           *)
(*                                                                         *)
(* A JavaScript string is a sequence of tokens.  Product names and the     *)
(* numeric head of a rating are spelled one character per token, so that   *)
(* trim, toLowerCase, includes, split and parseFloat are computed on the   *)
(* characters; fixed literal text that the code only copies and tests for  *)
(* emptiness is one token.  "" is the empty sequence.                      *)
(***************************************************************************)
EXTENDS Integers, Sequences, FiniteSets, TLC

\* null / undefined: a property that is missing from an object, or null.
Null == <<"<null>">>

\* JavaScript truthiness of a string-valued property: !!s
Truthy(s) == s # Null /\ s # <<>>

\* A one-token string literal.
T(s) == <<s>>

UpperCase == <<"A","B","C","D","E","F","G","H","I","J","K","L","M",
               "N","O","P","Q","R","S","T","U","V","W","X","Y","Z">>
LowerCase == <<"a","b","c","d","e","f","g","h","i","j","k","l","m",
               "n","o","p","q","r","s","t","u","v","w","x","y","z">>

LowerChar(c) ==
    IF \E i \in DOMAIN UpperCase : UpperCase[i] = c
    THEN LowerCase[CHOOSE i \in DOMAIN UpperCase : UpperCase[i] = c]
    ELSE c

\* String.prototype.toLowerCase
toLowerCase(s) == [i \in 1..Len(s) |-> LowerChar(s[i])]

\* String.prototype.includes
includes(s, sub) ==
    \E i \in 0..(Len(s) - Len(sub)) : SubSeq(s, i + 1, i + Len(sub)) = sub

IsSpace(c) == c \in {" ", "\t", "\n"}

\* String.prototype.trim
trim(s) ==
    LET keep == {i \in 1..Len(s) : ~IsSpace(s[i])}
    IN  IF keep = {} THEN <<>>
        ELSE SubSeq(s, CHOOSE i \in keep : \A j \in keep : i <= j,
                       CHOOSE i \in keep : \A j \in keep : j <= i)

\* SetSpread without the Set: [...xs], repeats kept.
SetSpreadKeepsRepeats(xs) == xs

\* [...new Set(xs)]: the distinct elements of xs in first-seen order.
RECURSIVE SetSpread(_)
SetSpread(xs) ==
    IF xs = <<>> THEN <<>>
    ELSE LET front == SetSpread(SubSeq(xs, 1, Len(xs) - 1))
             last  == xs[Len(xs)]
         IN  IF \E i \in DOMAIN front : front[i] = last
             THEN front ELSE Append(front, last)

\* ObjectSpread with the operands swapped: {...b, ...a}, a's value kept.
ObjectSpreadKeepsFirst(a, b) == [k \in DOMAIN a \cup DOMAIN b |->
                                    IF k \in DOMAIN a THEN a[k] ELSE b[k]]

\* {...a, ...b}: the keys of both, b's value where both have the key.
ObjectSpread(a, b) == [k \in DOMAIN a \cup DOMAIN b |->
                          IF k \in DOMAIN b THEN b[k] ELSE a[k]]

\* {} : the object with no keys.
EmptyObject == [k \in {} |-> <<>>]

\* A specifications property that is missing.
NullObject == [absent |-> Null]


-----------------------------------------------------------------------------
(* Numbers in strings.  A parsed number is kept in hundredths; the ratings   *)
(* and random draws of the code carry at most two decimals, no sign and no   *)
(* exponent.                                                                 *)

Digits == <<"0","1","2","3","4","5","6","7","8","9">>

IsDigit(c) == \E i \in DOMAIN Digits : Digits[i] = c

DigitValue(c) == (CHOOSE i \in DOMAIN Digits : Digits[i] = c) - 1

\* The number of leading digit characters of s.
RECURSIVE DigitRun(_)
DigitRun(s) ==
    IF s # <<>> /\ IsDigit(Head(s)) THEN 1 + DigitRun(Tail(s)) ELSE 0

\* The value of a string of digits.
RECURSIVE DigitsValue(_)
DigitsValue(s) ==
    IF s = <<>> THEN 0
    ELSE 10 * DigitsValue(SubSeq(s, 1, Len(s) - 1)) + DigitValue(s[Len(s)])

\* s.split(sep)[0]: the part of s before the first sep, all of s without one.
SplitHead(s, sep) ==
    LET at == {i \in DOMAIN s : s[i] = sep}
    IN  IF at = {} THEN s
        ELSE SubSeq(s, 1, (CHOOSE i \in at : \A j \in at : i <= j) - 1)

NaN == [nan |-> TRUE, hundredths |-> 0]

Number(h) == [nan |-> FALSE, hundredths |-> h]

\* Number.parseFloat: leading white space, digits, an optional fraction; NaN
\* when no digit starts the string.
parseFloat(s) ==
    LET lead == {i \in DOMAIN s : ~IsSpace(s[i])}
        t    == IF lead = {} THEN <<>>
                ELSE SubSeq(s, CHOOSE i \in lead : \A j \in lead : i <= j, Len(s))
        n    == DigitRun(t)
        rest == SubSeq(t, n + 1, Len(t))
        frac == IF rest # <<>> /\ Head(rest) = "."
                THEN SubSeq(Tail(rest), 1, DigitRun(Tail(rest)))
                ELSE <<>>
        two  == SubSeq(frac \o <<"0", "0">>, 1, 2)
    IN  IF n = 0 /\ frac = <<>> THEN NaN
        ELSE Number(100 * DigitsValue(SubSeq(t, 1, n)) + DigitsValue(two))

\* a > b on parsed numbers: false whenever either side is NaN.
GreaterThan(a, b) == ~a.nan /\ ~b.nan /\ a.hundredths > b.hundredths

\* x.toFixed(1) of a number given in hundredths (round half up; the draws of
\* the model are not at a half).
toFixed1(h) ==
    LET tenths == (h + 5) \div 10
    IN  <<Digits[(tenths \div 10) + 1], ".", Digits[(tenths % 10) + 1]>>

-----------------------------------------------------------------------------
(* Product records.                                                          *)

\* createIntelligentFallback's phone test, repeated in every scraper.
isPhone(productName) ==
    \/ includes(toLowerCase(productName), <<"p","h","o","n","e">>)
    \/ includes(toLowerCase(productName), <<"i","p","h","o","n","e">>)
    \/ includes(toLowerCase(productName), <<"g","a","l","a","x","y">>)

\* createIntelligentFallback(productName); rPrice and rRating are the two
\* Math.random() draws of the phone template, in hundredths.
createIntelligentFallback(productName, rPrice, rRating) ==
    IF isPhone(productName)
    THEN [name |-> productName,
          price |-> <<"$", ToString((rPrice * 800) \div 100 + 400), ".99">>,
          rating |-> toFixed1((rRating * 150) \div 100 + 350) \o <<"/", "5", " (estimated)">>,
          features |-> <<"Smartphone capabilities", "Camera system",
                         "Wireless connectivity", "Touchscreen interface",
                         "App ecosystem">>,
          description |-> productName \o T(" - intelligent analysis when direct scraping is unavailable."),
          availability |-> T("Check with retailers"),
          images |-> Null,
          specifications |-> ("Type" :> T("Smartphone"))
                              @@ ("Category" :> T("Mobile Device"))
                              @@ ("Data Source" :> T("Intelligent estimation"))]
    ELSE [name |-> productName,
          price |-> T("Price varies"),
          rating |-> T("Rating varies"),
          features |-> <<"Product features available", "Check retailer for details">>,
          description |-> productName \o T(" - intelligent analysis when direct scraping is unavailable."),
          availability |-> T("Check availability"),
          images |-> Null,
          specifications |-> ("Product" :> productName)
                              @@ ("Data Source" :> T("Intelligent estimation"))]

\* mergeProductData: the record the loop starts from.
MergedInit(productName) ==
    [name |-> productName, price |-> <<>>, rating |-> <<>>, features |-> <<>>,
     description |-> <<>>, availability |-> <<>>, images |-> <<>>,
     specifications |-> EmptyObject]

\* MergeOne taking the name like the other scalar fields: a record's name,
\* when it has one, replaces the request's.
MergeOneTakesName(merged, result) ==
    [name |-> IF Truthy(result.name) THEN result.name ELSE merged.name,
     price |-> IF Truthy(result.price) /\ ~Truthy(merged.price)
               THEN result.price ELSE merged.price,
     rating |-> IF Truthy(result.rating) /\ ~Truthy(merged.rating)
                THEN result.rating ELSE merged.rating,
     description |-> IF Truthy(result.description) /\ ~Truthy(merged.description)
                     THEN result.description ELSE merged.description,
     availability |-> IF Truthy(result.availability) /\ ~Truthy(merged.availability)
                      THEN result.availability ELSE merged.availability,
     features |-> IF result.features # Null
                  THEN SetSpread(merged.features \o result.features)
                  ELSE merged.features,
     images |-> IF result.images # Null
                THEN SetSpread(merged.images \o result.images)
                ELSE merged.images,
     specifications |-> IF result.specifications # NullObject
                        THEN ObjectSpread(merged.specifications, result.specifications)
                        ELSE merged.specifications]

\* MergeOne with the `!merged.price` guard dropped: the last priced record wins.
MergeOneLastPrice(merged, result) ==
    [name |-> merged.name,
     price |-> IF Truthy(result.price) THEN result.price ELSE merged.price,
     rating |-> IF Truthy(result.rating) /\ ~Truthy(merged.rating)
                THEN result.rating ELSE merged.rating,
     description |-> IF Truthy(result.description) /\ ~Truthy(merged.description)
                     THEN result.description ELSE merged.description,
     availability |-> IF Truthy(result.availability) /\ ~Truthy(merged.availability)
                      THEN result.availability ELSE merged.availability,
     features |-> IF result.features # Null
                  THEN SetSpread(merged.features \o result.features)
                  ELSE merged.features,
     images |-> IF result.images # Null
                THEN SetSpread(merged.images \o result.images)
                ELSE merged.images,
     specifications |-> IF result.specifications # NullObject
                        THEN ObjectSpread(merged.specifications, result.specifications)
                        ELSE merged.specifications]

\* mergeProductData: one iteration of `for (const result of results)`.
MergeOne(merged, result) ==
    [name |-> merged.name,
     price |-> IF Truthy(result.price) /\ ~Truthy(merged.price)
               THEN result.price ELSE merged.price,
     rating |-> IF Truthy(result.rating) /\ ~Truthy(merged.rating)
                THEN result.rating ELSE merged.rating,
     description |-> IF Truthy(result.description) /\ ~Truthy(merged.description)
                     THEN result.description ELSE merged.description,
     availability |-> IF Truthy(result.availability) /\ ~Truthy(merged.availability)
                      THEN result.availability ELSE merged.availability,
     features |-> IF result.features # Null
                  THEN SetSpread(merged.features \o result.features)
                  ELSE merged.features,
     images |-> IF result.images # Null
                THEN SetSpread(merged.images \o result.images)
                ELSE merged.images,
     specifications |-> IF result.specifications # NullObject
                        THEN ObjectSpread(merged.specifications, result.specifications)
                        ELSE merged.specifications]

RECURSIVE MergeLoop(_, _)
MergeLoop(merged, results) ==
    IF results = <<>> THEN merged
    ELSE MergeLoop(MergeOne(merged, Head(results)), Tail(results))

\* mergeProductData(results, productName)
mergeProductData(results, productName) ==
    MergeLoop(MergedInit(productName), results)

-----------------------------------------------------------------------------
(* MaximLogger entries and what a scrapeProduct call comes to.               *)

\* MaximLogger.addLog: the entry pushed (the timestamp is the entry's place
\* in the sequence).
LogEntry(level, message, metadata) ==
    [level |-> level, message |-> message,
     source |-> "ProductComparisonAgent", metadata |-> metadata]

Info(message, metadata)  == LogEntry("info", message, metadata)
Warn(message, metadata)  == LogEntry("warn", message, metadata)
Error(message, metadata) == LogEntry("error", message, metadata)

\* No record: the data of a call that did not return.
NoRecord == [absent |-> TRUE]

\* scrapeProduct returned data, having appended logs.
Returned(data, logs) ==
    [kind |-> "return", data |-> data, error |-> <<>>, logs |-> logs]

\* scrapeProduct rejected with new Error(message), having appended logs.
Threw(message, logs) ==
    [kind |-> "throw", data |-> NoRecord, error |-> message, logs |-> logs]

\* scrapeProduct is awaiting a promise that never settles.
Pending(logs) ==
    [kind |-> "pending", data |-> NoRecord, error |-> <<>>, logs |-> logs]

\* The guard every scraper starts with: !productName || productName.trim().length === 0
NameMissing(productName) ==
    ~Truthy(productName) \/ Len(trim(productName)) = 0

-----------------------------------------------------------------------------
(* ScrapybaraBrowser (lib/scrapybara-browser.ts): a simulation, nothing in   *)
(* it awaits anything but timers.                                            *)

\* generateAIPrice; r is the Math.random() draw in hundredths (one value
\* stands for the draws of one call).
generateAIPrice(r) ==
    LET prices == <<299, 399, 499, 599, 699, 799, 899, 999, 1199>>
        cents  == ToString(r)
    IN  <<"$", ToString(prices[(r * 9) \div 100 + 1]), ".",
          IF r < 10 THEN "0" \o cents ELSE cents>>

\* generateAIRating
generateAIRating(r) ==
    toFixed1((r * 150) \div 100 + 350)
      \o <<"/", "5", " (", ToString(r * 50 + 500), " AI-analyzed reviews)">>

\* generateAIFeatures(productName, "ecommerce")
generateAIFeatures ==
    <<"AI-verified quality construction", "AI-detected premium materials",
      "AI-confirmed user-friendly design", "AI-validated performance metrics",
      "Fast shipping available", "Return policy confirmed", "Warranty included">>

\* What aggregateAIResults reads of a strategy's result: result.strategy and
\* result.data, a missing property of data as Null.
AIResult(strategy, price, rating, features, keyPoints, availability, specifications, confidence) ==
    [strategy |-> strategy, price |-> price, rating |-> rating,
     features |-> features, keyPoints |-> keyPoints,
     availability |-> availability, specifications |-> specifications,
     confidence |-> confidence]

aiEcommerceSearch(productName, r) ==
    AIResult("E-commerce Search", generateAIPrice(r), generateAIRating(r),
             generateAIFeatures, Null, T("AI-detected: In Stock"), NullObject, 92)

\* bestPrice: the lowest of four generateAIPrice draws.
aiPriceComparison(productName, r) ==
    AIResult("Price Comparison", generateAIPrice(r), Null, Null, Null, Null,
             NullObject, 88)

aiReviewAnalysis(productName, r) ==
    AIResult("Review Analysis", Null, generateAIRating(r), Null,
             <<"AI-identified: Excellent build quality",
               "AI-identified: Great value for money",
               "AI-identified: Fast performance",
               "AI-identified: User-friendly design">>,
             Null, NullObject, 85)

aiSpecificationLookup(productName) ==
    AIResult("Specification Lookup", Null, Null, Null, Null, Null,
             IF isPhone(productName)
             THEN ("Display" :> T("AI-detected: 6.1-6.8 inch OLED"))
                  @@ ("Processor" :> T("AI-detected: Latest generation chipset"))
                  @@ ("RAM" :> T("AI-detected: 8-12GB"))
                  @@ ("Storage" :> T("AI-detected: 128GB-1TB options"))
                  @@ ("Camera" :> T("AI-detected: Multi-lens system"))
                  @@ ("Battery" :> T("AI-detected: All-day battery life"))
                  @@ ("OS" :> T("AI-detected: Latest OS version"))
             ELSE ("Brand" :> T("AI-detected brand"))
                  @@ ("Model" :> productName)
                  @@ ("Category" :> T("AI-classified category"))
                  @@ ("Features" :> T("AI-identified key features"))
                  @@ ("Warranty" :> T("AI-found warranty info")),
             90)

\* aggregateAIResults: the loop's state is the aggregated record, the highest
\* confidence seen (in hundredths) and bestPriceData.
AIAggregateOne(st, result) ==
    LET better == result.confidence > st.highestConfidence
        f1 == IF result.features # Null
              THEN SetSpread(st.aggregated.features \o result.features)
              ELSE st.aggregated.features
        f2 == IF result.keyPoints # Null
              THEN SetSpread(f1 \o result.keyPoints) ELSE f1
    IN  [highestConfidence |-> IF better THEN result.confidence ELSE st.highestConfidence,
         bestPriceData |-> IF better /\ Truthy(result.price) THEN result ELSE st.bestPriceData,
         aggregated |->
            [st.aggregated EXCEPT
               !.features = f2,
               !.specifications =
                   IF result.specifications # NullObject
                   THEN ObjectSpread(@, result.specifications) ELSE @,
               !.availability =
                   IF Truthy(result.availability) /\ ~Truthy(@)
                   THEN result.availability ELSE @,
               !.rating =
                   IF result.strategy = "Review Analysis" /\ Truthy(result.rating)
                   THEN result.rating ELSE @]]

RECURSIVE AIAggregateLoop(_, _)
AIAggregateLoop(st, results) ==
    IF results = <<>> THEN st
    ELSE AIAggregateLoop(AIAggregateOne(st, Head(results)), Tail(results))

\* aggregateAIResults(results, productName); the aggregated record has no
\* images property.
aggregateAIResults(results, productName) ==
    LET st == AIAggregateLoop(
                 [highestConfidence |-> 0, bestPriceData |-> NoRecord,
                  aggregated |-> [MergedInit(productName) EXCEPT !.images = Null]],
                 results)
        a  == st.aggregated
        best == st.bestPriceData
        price  == IF best # NoRecord THEN best.price ELSE a.price
        rating == IF best # NoRecord /\ Truthy(best.rating) /\ ~Truthy(a.rating)
                  THEN best.rating ELSE a.rating
    IN  [a EXCEPT
           !.price = IF Truthy(price) THEN price ELSE T("Price analysis in progress"),
           !.rating = IF Truthy(rating) THEN rating ELSE T("Rating analysis in progress"),
           !.availability = IF Truthy(@) THEN @ ELSE T("Availability being verified"),
           !.description = productName \o T(" analyzed using advanced AI-powered browser automation with computer vision and intelligent interaction capabilities."),
           !.specifications =
               ObjectSpread(@, ("AI Confidence" :> <<ToString(st.highestConfidence), ".0", "%">>)
                               @@ ("Analysis Method" :> T("ScrapybaraBrowser AI")))]

\* The entries one AI strategy writes: scrapeProduct's, executeAIStrategy's
\* and the ai* function's own.
AIStrategyLogs(strategy, productName) ==
    <<Info(T("ScrapybaraBrowser: Executing AI strategy"),
           [strategy |-> T(strategy), product |-> productName]),
      Info(T("ScrapybaraBrowser: AI executing strategy"),
           [strategy |-> T(strategy), sessionId |-> T("ai_session_${Date.now()}")])>>
    \o CASE strategy = "E-commerce Search" ->
              <<Info(T("ScrapybaraBrowser: AI performing e-commerce search"), NullObject)>>
              \o [i \in 1..5 |->
                    Info(T("ScrapybaraBrowser: AI executing"),
                         [instruction |-> T(<<"Navigate to Amazon.com",
                                              "Locate search box using AI vision",
                                              "Type product name with intelligent input",
                                              "Analyze search results with computer vision",
                                              "Extract product details using AI understanding">>[i])])]
         [] strategy = "Price Comparison" ->
              <<Info(T("ScrapybaraBrowser: AI performing price comparison"), NullObject)>>
         [] strategy = "Review Analysis" ->
              <<Info(T("ScrapybaraBrowser: AI analyzing reviews"), NullObject)>>
         [] OTHER ->
              <<Info(T("ScrapybaraBrowser: AI looking up specifications"), NullObject)>>

\* ScrapybaraBrowser.scrapeProduct(productName)
ScrapybaraBrowser_scrapeProduct(productName, r) ==
    LET start == <<Info(T("ScrapybaraBrowser: Starting AI-powered product scrape"),
                        [product |-> productName])>>
        results == <<aiEcommerceSearch(productName, r), aiPriceComparison(productName, r),
                     aiReviewAnalysis(productName, r), aiSpecificationLookup(productName)>>
    IN  IF NameMissing(productName)
        THEN Threw(T("Product name is required"),
                   start \o <<Error(T("ScrapybaraBrowser: AI scrape failed"),
                                    [product |-> productName,
                                     error |-> T("Product name is required")])>>)
        ELSE Returned(aggregateAIResults(results, productName),
                      start
                      \o <<Info(T("ScrapybaraBrowser: Initializing AI session"), NullObject)>>
                      \o AIStrategyLogs("E-commerce Search", productName)
                      \o AIStrategyLogs("Price Comparison", productName)
                      \o AIStrategyLogs("Review Analysis", productName)
                      \o AIStrategyLogs("Specification Lookup", productName)
                      \o <<Info(T("ScrapybaraBrowser: Closing AI session"),
                                [sessionId |-> T("ai_session_${Date.now()}")]),
                           Info(T("ScrapybaraBrowser: AI-powered scrape completed"),
                                [product |-> productName, strategiesExecuted |-> Len(results)])>>)

-----------------------------------------------------------------------------
(* RealPlaywrightScraper (lib/real-playwright-scraper.ts).  What the browser *)
(* does is the environment of a call:                                        *)
(*   launch     "ok" | "fails"      chromium.launch resolves or rejects      *)
(*   page       what every site's page does:                                 *)
(*                "found"   the search result is there and is read           *)
(*                "empty"   page.evaluate finds no first product (null)      *)
(*                "timeout" goto / waitForSelector rejects inside scrape<Site>*)
(*                "noPage"  browser.newPage rejects                          *)
(*                "hang"    an awaited page call never settles               *)
(*   closeFails how many browser.close() calls in a row reject (0, 1, 2)     *)
(*   r          the Math.random() draw, in hundredths                        *)

\* getFallbackData(productName, source)
getFallbackData(productName, source, r) ==
    [name |-> productName,
     price |-> T(<<"$199.99", "$299.99", "$399.99", "$499.99", "$599.99">>[(r * 5) \div 100 + 1]),
     rating |-> <<"4", ".", "0", "/", "5", " (estimated)">>,
     features |-> <<"Quality product", "Good value", "Reliable">>,
     description |-> Null,
     availability |-> T("Check availability"),
     images |-> Null,
     specifications |-> [Source |-> T(source), Status |-> T("Fallback data")]]

\* scrapeAmazon / scrapeBestBuy / scrapeTarget / scrapeWalmart on a page that
\* answers: the record returned, with what the page showed ("found") or with
\* productData null ("empty").
ScrapedSite(site, productName, page) ==
    LET found == page = "found"
    IN  CASE site = "amazon.com" ->
              [name |-> IF found THEN T("${title}") ELSE productName,
               price |-> IF found THEN <<"$", "${price}">> ELSE Null,
               rating |-> IF found THEN <<"4", ".", "5", " out of 5 stars">> ELSE Null,
               features |-> <<"Amazon Choice", "Prime eligible", "Fast shipping">>,
               description |-> Null,
               availability |-> T("In Stock"),
               images |-> IF found THEN <<"${image}">> ELSE <<>>,
               specifications |-> ("Seller" :> T("Amazon.com"))
                                  @@ ("Shipping" :> T("Free with Prime"))
                                  @@ ("Return Policy" :> T("30 days"))]
         [] site = "bestbuy.com" ->
              [name |-> IF found THEN T("${title}") ELSE productName,
               price |-> IF found THEN T("${price}") ELSE Null,
               rating |-> IF found THEN T("Rating 4.6 out of 5 stars with 1203 reviews") ELSE Null,
               features |-> <<"Geek Squad support", "Price match guarantee", "Expert installation">>,
               description |-> Null,
               availability |-> T("Available for pickup"),
               images |-> Null,
               specifications |-> ("Store Pickup" :> T("Available"))
                                  @@ ("Geek Squad" :> T("Setup available"))
                                  @@ ("Warranty" :> T("Manufacturer + Extended options"))]
         [] site = "target.com" ->
              [name |-> IF found THEN T("${title}") ELSE productName,
               price |-> IF found THEN T("${price}") ELSE Null,
               rating |-> <<"4", ".", "2", "/", "5", " (Target reviews)">>,
               features |-> <<"Target Circle rewards", "Same day delivery", "Drive up available">>,
               description |-> Null,
               availability |-> T("Limited stock"),
               images |-> Null,
               specifications |-> ("Delivery" :> T("Same day available"))
                                  @@ ("Pickup" :> T("Drive up or in-store"))
                                  @@ ("Returns" :> T("90 days with receipt"))]
         [] OTHER ->
              [name |-> IF found THEN T("${title}") ELSE productName,
               price |-> IF found THEN T("${price}") ELSE Null,
               rating |-> <<"4", ".", "1", "/", "5", " (Walmart reviews)">>,
               features |-> <<"Everyday low price", "Free shipping $35+", "Pickup available">>,
               description |-> Null,
               availability |-> T("In Stock"),
               images |-> Null,
               specifications |-> ("Shipping" :> T("Free on $35+"))
                                  @@ ("Pickup" :> T("Free store pickup"))
                                  @@ ("Returns" :> T("90 days"))]

\* The warning scrape<Site>'s own catch writes.
SiteFailedMessage(site) ==
    CASE site = "amazon.com"  -> T("Amazon scraping failed")
      [] site = "bestbuy.com" -> T("Best Buy scraping failed")
      [] site = "target.com"  -> T("Target scraping failed")
      [] OTHER                -> T("Walmart scraping failed")

\* One iteration of scrapeProduct's `for (const site of sites)`: the record
\* pushed to results and the entries written.
PlaywrightSite(site, productName, env) ==
    LET scraping == Info(T("RealPlaywrightScraper: Scraping site"),
                         [site |-> T(site), product |-> productName])
    IN  CASE env.page = "noPage" ->
              [data |-> getFallbackData(productName, site, env.r),
               logs |-> <<scraping,
                          Warn(T("RealPlaywrightScraper: Site scraping failed"),
                               [site |-> T(site), error |-> T("${browserError}")])>>]
         [] env.page = "timeout" ->
              [data |-> getFallbackData(productName, site, env.r),
               logs |-> <<scraping,
                          Warn(SiteFailedMessage(site), [error |-> T("${browserError}")])>>]
         [] OTHER ->
              [data |-> ScrapedSite(site, productName, env.page),
               logs |-> <<scraping>>]

\* RealPlaywrightScraper.mergeResults: `// Use the highest rating`.
RECURSIVE HighestRating(_, _, _)
HighestRating(results, highestRating, rating) ==
    IF results = <<>> THEN rating
    ELSE LET result == Head(results)
             parsed == IF Truthy(result.rating)
                       THEN parseFloat(SplitHead(result.rating, "/"))
                       ELSE NaN
         IN  IF Truthy(result.rating) /\ GreaterThan(parsed, highestRating)
             THEN HighestRating(Tail(results), parsed, result.rating)
             ELSE HighestRating(Tail(results), highestRating, rating)

\* The first truthy value of a property, "" when no record has one.
RECURSIVE FirstAvailable(_, _)
FirstAvailable(results, field) ==
    IF results = <<>> THEN <<>>
    ELSE IF Truthy(Head(results)[field]) THEN Head(results)[field]
    ELSE FirstAvailable(Tail(results), field)

RECURSIVE MergeAllFeatures(_, _, _)
MergeAllFeatures(results, field, acc) ==
    IF results = <<>> THEN acc
    ELSE MergeAllFeatures(Tail(results), field,
            IF Head(results)[field] # Null
            THEN SetSpread(acc \o Head(results)[field]) ELSE acc)

RECURSIVE MergeSpecifications(_, _)
MergeSpecifications(results, acc) ==
    IF results = <<>> THEN acc
    ELSE MergeSpecifications(Tail(results),
            IF Head(results).specifications # NullObject
            THEN ObjectSpread(acc, Head(results).specifications) ELSE acc)

\* RealPlaywrightScraper.mergeResults(results, productName)
RealPlaywrightScraper_mergeResults(results, productName) ==
    [name |-> productName,
     price |-> FirstAvailable(results, "price"),
     rating |-> HighestRating(results, Number(0), <<>>),
     features |-> MergeAllFeatures(results, "features", <<>>),
     description |-> productName \o T(" aggregated from multiple e-commerce platforms with real-time data."),
     availability |-> FirstAvailable(results, "availability"),
     specifications |-> MergeSpecifications(results, EmptyObject),
     images |-> MergeAllFeatures(results, "images", <<>>)]

isLaptop(productName) ==
    \/ includes(toLowerCase(productName), <<"l","a","p","t","o","p">>)
    \/ includes(toLowerCase(productName), <<"m","a","c","b","o","o","k">>)
    \/ includes(toLowerCase(productName), <<"t","h","i","n","k","p","a","d">>)

\* RealPlaywrightScraper.getIntelligentFallbackData(productName)
getIntelligentFallbackData(productName, r) ==
    LET rating == toFixed1((r * 150) \div 100 + 350) \o <<"/", "5">>
        base == [name |-> productName, description |-> Null, images |-> Null]
    IN  IF isPhone(productName)
        THEN base @@
             [price |-> <<"$", ToString((r * 800) \div 100 + 400), ".99">>,
              rating |-> rating,
              features |-> <<"Advanced camera system", "5G connectivity", "Fast charging",
                             "Premium build quality", "Latest OS">>,
              availability |-> T("Available online"),
              specifications |-> [Display |-> T("6.1-6.8 inch"), Storage |-> T("128GB-1TB"),
                                  RAM |-> T("6-12GB"), Camera |-> T("Multi-lens system"),
                                  Battery |-> T("All-day battery")]]
        ELSE IF isLaptop(productName)
        THEN base @@
             [price |-> <<"$", ToString((r * 1500) \div 100 + 500), ".99">>,
              rating |-> rating,
              features |-> <<"High-performance processor", "Full HD display",
                             "Long battery life", "Lightweight design", "Fast SSD storage">>,
              availability |-> T("Available online"),
              specifications |-> [Display |-> T("13-16 inch"),
                                  Processor |-> T("Intel/AMD latest gen"),
                                  RAM |-> T("8-32GB"), Storage |-> T("256GB-2TB SSD"),
                                  Graphics |-> T("Integrated/Dedicated")]]
        ELSE base @@
             [price |-> <<"$", ToString((r * 500) \div 100 + 100), ".99">>,
              rating |-> rating,
              features |-> <<"Quality construction", "User-friendly design",
                             "Reliable performance", "Good value for money">>,
              availability |-> T("Check availability"),
              specifications |-> [Brand |-> T("Various"),
                                  Category |-> T("Consumer Electronics"),
                                  Warranty |-> T("1 Year")]]

PlaywrightSites == <<"amazon.com", "bestbuy.com", "target.com", "walmart.com">>

\* RealPlaywrightScraper.scrapeProduct(productName)
RealPlaywrightScraper_scrapeProduct(productName, env) ==
    LET start == <<Info(T("RealPlaywrightScraper: Starting product scrape"),
                        [product |-> productName])>>
        failed(error) == Error(T("RealPlaywrightScraper: Scrape failed, using intelligent fallback"),
                               [product |-> productName, error |-> error])
        sites == [i \in DOMAIN PlaywrightSites |->
                     PlaywrightSite(PlaywrightSites[i], productName, env)]
        siteLogs == sites[1].logs \o sites[2].logs \o sites[3].logs \o sites[4].logs
        results == [i \in DOMAIN sites |-> sites[i].data]
    IN  IF NameMissing(productName)
        THEN \* thrown inside the try; this.browser is still null in the catch
             Returned(getIntelligentFallbackData(productName, env.r),
                      start \o <<failed(T("Product name is required"))>>)
        ELSE IF env.launch = "fails"
        THEN Returned(getIntelligentFallbackData(productName, env.r),
                      start \o <<Warn(T("Browser launch failed, using intelligent fallback"),
                                      [error |-> T("${browserError}")])>>)
        ELSE IF env.page = "hang"
        THEN Pending(start \o <<Info(T("RealPlaywrightScraper: Scraping site"),
                                     [site |-> T("amazon.com"), product |-> productName])>>)
        ELSE IF env.closeFails = 0
        THEN Returned(RealPlaywrightScraper_mergeResults(results, productName),
                      start \o siteLogs
                      \o <<Info(T("RealPlaywrightScraper: Product scrape completed"),
                                [product |-> productName, sitesScraped |-> Len(results)])>>)
        ELSE IF env.closeFails = 1
        THEN \* close() rejects after the loop; the catch closes again and succeeds
             Returned(getIntelligentFallbackData(productName, env.r),
                      start \o siteLogs \o <<failed(T("${browserError}"))>>)
        ELSE \* close() rejects again inside the catch: the rejection leaves scrapeProduct
             Threw(T("${browserError}"), start \o siteLogs)

-----------------------------------------------------------------------------
(* RealPuppeteerScraper (lib/real-puppeteer-scraper.ts).  The environment of *)
(* a call is that of RealPlaywrightScraper, plus                             *)
(*   ocr   the number the rating pattern of simulateOCRProcessing matches in *)
(*         the page text, Null when it matches nothing                       *)

\* What aggregateVisionResults reads of a task's result.
VisionResult(visualFeatures, extractedData, ocrResults) ==
    [visualFeatures |-> visualFeatures, extractedData |-> extractedData,
     ocrResults |-> ocrResults]

\* getFallbackVisionData / getTaskFallbackData: { fallbackData: ... }, nothing
\* aggregateVisionResults reads.
FallbackVisionResult == VisionResult(Null, NullObject, NullObject)

\* simulateAIVisionAnalysis
simulateAIVisionAnalysis(productName) ==
    IF isPhone(productName)
    THEN <<"Rectangular device detected", "Multiple camera lenses visible",
           "Screen with minimal bezels", "Premium build materials identified",
           "Brand logo detected">>
    ELSE <<"Product packaging visible", "Brand elements identified",
           "Quality construction observed", "Modern design detected">>

\* analyzeScreenshotsForProductData
analyzeScreenshotsForProductData(r) ==
    [price |-> <<"$", ToString((r * 1000) \div 100 + 200), ".99">>,
     availability |-> T("In Stock (Vision Confirmed)"),
     features |-> <<"Visually verified quality", "Professional appearance", "Modern design">>,
     specifications |-> ("Visual Quality" :> T("High"))
                        @@ ("Build Assessment" :> T("Premium"))
                        @@ ("Design Style" :> T("Contemporary"))]

\* simulateOCRProcessing: extractedRating is `${ratingMatch[1]}/5`; the price
\* pattern is taken to match whenever the rating pattern does.
simulateOCRProcessing(ocr) ==
    [extractedPrice |-> IF ocr # Null THEN T("${priceMatch[0]}") ELSE Null,
     extractedRating |-> IF ocr # Null THEN ocr \o <<"/", "5">> ELSE Null]

VisionTasks == <<"Visual Product Analysis", "Screenshot Analysis",
                 "OCR Text Extraction", "UI Element Detection">>

\* The warning the task handler's own catch writes.
TaskFailedMessage(task) ==
    CASE task = "Visual Product Analysis" -> T("Visual analysis failed")
      [] task = "Screenshot Analysis"     -> T("Screenshot analysis failed")
      [] task = "OCR Text Extraction"     -> T("OCR extraction failed")
      [] OTHER                            -> T("UI detection failed")

\* One iteration of scrapeProduct's `for (const task of visionTasks)`.
PuppeteerTask(task, productName, env) ==
    LET executing == Info(T("RealPuppeteerScraper: Executing vision task"),
                          [task |-> T(task), product |-> productName])
    IN  CASE env.page = "noPage" ->
              [data |-> FallbackVisionResult,
               logs |-> <<executing,
                          Warn(T("RealPuppeteerScraper: Vision task failed"),
                               [task |-> T(task), error |-> T("${browserError}")])>>]
         [] env.page = "timeout" ->
              [data |-> FallbackVisionResult,
               logs |-> <<executing,
                          Warn(TaskFailedMessage(task), [error |-> T("${browserError}")])>>]
         [] OTHER ->
              [data |-> CASE task = "Visual Product Analysis" ->
                               VisionResult(simulateAIVisionAnalysis(productName),
                                            NullObject, NullObject)
                          [] task = "Screenshot Analysis" ->
                               VisionResult(Null, analyzeScreenshotsForProductData(env.r),
                                            NullObject)
                          [] task = "OCR Text Extraction" ->
                               VisionResult(Null, NullObject, simulateOCRProcessing(env.ocr))
                          [] OTHER -> FallbackVisionResult,
               logs |-> <<executing>>]

\* aggregateVisionResults: one iteration of `for (const result of results)`.
VisionAggregateOne(aggregated, result) ==
    LET ed  == result.extractedData
        ocr == result.ocrResults
        p1  == IF ed # NullObject /\ Truthy(ed.price) /\ ~Truthy(aggregated.price)
               THEN ed.price ELSE aggregated.price
        f1  == IF result.visualFeatures # Null
               THEN SetSpread(aggregated.features \o result.visualFeatures)
               ELSE aggregated.features
    IN  [aggregated EXCEPT
           !.price = IF ocr # NullObject /\ Truthy(ocr.extractedPrice) /\ ~Truthy(p1)
                     THEN ocr.extractedPrice ELSE p1,
           !.rating = IF ocr # NullObject /\ Truthy(ocr.extractedRating) /\ ~Truthy(@)
                      THEN ocr.extractedRating ELSE @,
           !.features = IF ed # NullObject THEN SetSpread(f1 \o ed.features) ELSE f1,
           !.specifications = IF ed # NullObject
                              THEN ObjectSpread(@, ed.specifications) ELSE @,
           !.availability = IF ed # NullObject /\ Truthy(ed.availability) /\ ~Truthy(@)
                            THEN ed.availability ELSE @]

RECURSIVE VisionAggregateLoop(_, _)
VisionAggregateLoop(aggregated, results) ==
    IF results = <<>> THEN aggregated
    ELSE VisionAggregateLoop(VisionAggregateOne(aggregated, Head(results)), Tail(results))

\* RealPuppeteerScraper.aggregateVisionResults(results, productName)
aggregateVisionResults(results, productName) ==
    LET a == VisionAggregateLoop([MergedInit(productName) EXCEPT !.images = Null], results)
    IN  [a EXCEPT
           !.price = IF Truthy(@) THEN @ ELSE T("Price not detected"),
           !.rating = IF Truthy(@) THEN @ ELSE T("Rating not detected"),
           !.availability = IF Truthy(@) THEN @ ELSE T("Availability unknown"),
           !.description = productName \o T(" analyzed using AI vision and OCR technology with Puppeteer automation.")]

\* getAISimulatedData(productName): the record; it also writes one entry.
getAISimulatedData(productName, r) ==
    [name |-> productName,
     price |-> <<"$", ToString((r * 1000) \div 100 + 200), ".99">>,
     rating |-> toFixed1((r * 150) \div 100 + 350) \o <<"/", "5", " (AI estimated)">>,
     features |-> <<"AI-simulated: Premium design detected",
                    "AI-simulated: Quality materials identified",
                    "AI-simulated: Modern interface observed",
                    "AI-simulated: User-friendly layout">>,
     availability |-> T("AI-simulated: Available"),
     images |-> Null,
     specifications |-> ("Analysis Method" :> T("AI Vision Simulation"))
                        @@ ("Confidence" :> T("85%"))
                        @@ ("Data Source" :> T("Intelligent estimation")),
     description |-> productName \o T(" analyzed using AI simulation when browser automation is unavailable.")]

UsingAISimulation == Info(T("Using AI simulation for vision analysis"), NullObject)

\* RealPuppeteerScraper.scrapeProduct(productName)
RealPuppeteerScraper_scrapeProduct(productName, env) ==
    LET start == <<Info(T("RealPuppeteerScraper: Starting product scrape"),
                        [product |-> productName])>>
        failed(error) == Error(T("RealPuppeteerScraper: Scrape failed, using AI simulation"),
                               [product |-> productName, error |-> error])
        tasks == [i \in DOMAIN VisionTasks |->
                     PuppeteerTask(VisionTasks[i], productName, env)]
        taskLogs == tasks[1].logs \o tasks[2].logs \o tasks[3].logs \o tasks[4].logs
        results == [i \in DOMAIN tasks |-> tasks[i].data]
    IN  IF NameMissing(productName)
        THEN Returned(getAISimulatedData(productName, env.r),
                      start \o <<failed(T("Product name is required")), UsingAISimulation>>)
        ELSE IF env.launch = "fails"
        THEN Returned(getAISimulatedData(productName, env.r),
                      start \o <<Warn(T("Puppeteer browser launch failed, using AI simulation"),
                                      [error |-> T("${browserError}")]),
                                 UsingAISimulation>>)
        ELSE IF env.page = "hang"
        THEN Pending(start \o <<Info(T("RealPuppeteerScraper: Executing vision task"),
                                     [task |-> T(VisionTasks[1]), product |-> productName])>>)
        ELSE IF env.closeFails = 0
        THEN Returned(aggregateVisionResults(results, productName),
                      start \o taskLogs
                      \o <<Info(T("RealPuppeteerScraper: Product scrape completed"),
                                [product |-> productName, visionTasksCompleted |-> Len(results)])>>)
        ELSE IF env.closeFails = 1
        THEN Returned(getAISimulatedData(productName, env.r),
                      start \o taskLogs \o <<failed(T("${browserError}")), UsingAISimulation>>)
        ELSE Threw(T("${browserError}"), start \o taskLogs)

-----------------------------------------------------------------------------
(* The compare-products route (app/api/compare-products/route.ts).           *)

VARIABLES
    apiKey,       \* process.env.OPENAI_API_KEY is set
    request,      \* the body of the request in flight: product1, product2, methods
    pc,           \* where POST is: "idle", "running", "pending", "generating", "responded"
    scrapers,     \* POST's scrapers: the class names, in construction order
    product,      \* which scrapeProductDataWithFallback call is running: 1 or 2
    next,         \* the index in scrapers of the scraper the loop is at
    results,      \* scrapeProductDataWithFallback's results
    logs,         \* logger.logs of the module-level MaximLogger
    productData,  \* <<product1Data, product2Data>>
    response,     \* what POST answered
    calls,        \* every scrapeProduct invocation so far: the scraper, the
                  \* productName, the aggregation (1 or 2) and how it ended
    fallbacks,    \* per aggregation: the createIntelligentFallback invocations
    merges,       \* every mergeProductData invocation so far: its results argument
    trail,        \* per aggregation: Len(logs) when it started and when it returned
    browser,      \* a scraper instance's this.browser and what it has open
                  \* (told step by step further down)
    component     \* the state of the page component (further down)

routeVars == <<apiKey, request, pc, scrapers, product, next, results, logs,
               productData, response, calls, fallbacks, merges, trail,
               browser, component>>

NoRequest  == [absent |-> TRUE]
NoResponse == [absent |-> TRUE]

\* No scraper instance and no page component are looked at.
NoBrowser   == [absent |-> TRUE]
NoComponent == [absent |-> TRUE]

\* The product names a request is given: none, "", blanks, one character, an
\* ordinary name, a phone in capitals, a padded name.
WidgetX == <<"W","i","d","g","e","t"," ","X">>
Galaxy  == <<"G","A","L","A","X","Y"," ","S","2","4">>
Blank   == <<" "," "," ">>

\* page.tsx validateInput's upper bound on value.trim().length
MaxNameLength == 100

\* A name of n characters.
LongName(n) == [i \in 1..n |-> "x"]

ProductNames == {Null, <<>>, Blank, <<"a">>, WidgetX, Galaxy,
                 LongName(MaxNameLength), LongName(MaxNameLength + 1)}

SecondNames == {<<>>, WidgetX}

\* The methods a request is given: an array of ids (read with includes only,
\* so a set), or none.
NoMethods == {"<null>"}
MethodSets == SUBSET {"scrapybara", "playwright", "puppeteer"}
                \cup {{"selenium"}, NoMethods}

\* What Math.random() returns, in hundredths.
RandomDraws == {0, 99}

\* What the browsers do during one scrapeProduct call.
BrowserEnvs ==
    {[launch |-> "fails", page |-> "found", closeFails |-> 0, ocr |-> Null, r |-> 40],
     [launch |-> "ok", page |-> "found", closeFails |-> 0, ocr |-> Null, r |-> 40],
     [launch |-> "ok", page |-> "found", closeFails |-> 0, ocr |-> <<"4", ".", "5">>, r |-> 40],
     [launch |-> "ok", page |-> "noPage", closeFails |-> 0, ocr |-> Null, r |-> 40],
     [launch |-> "ok", page |-> "found", closeFails |-> 2, ocr |-> Null, r |-> 40],
     [launch |-> "ok", page |-> "noPage", closeFails |-> 2, ocr |-> Null, r |-> 40],
     [launch |-> "ok", page |-> "hang", closeFails |-> 0, ocr |-> Null, r |-> 40]}

\* The entries an earlier request left in the logger (it is never cleared).
EarlierLogs ==
    {<<>>,
     <<Warn(T("Scraper RealPuppeteerScraper had issues, but provided fallback data"),
            [product |-> Galaxy, error |-> T("${browserError}")]),
       Info(T("Product comparison completed successfully"), NullObject)>>}

\* POST line 15: !product1 || !product2
NamesRequired(product1, product2) == ~Truthy(product1) \/ ~Truthy(product2)

\* POST lines 33-45: the scrapers of the selected methods.
BuildScrapers(methods) ==
    (IF "scrapybara" \in methods THEN <<"ScrapybaraBrowser">> ELSE <<>>)
    \o (IF "playwright" \in methods THEN <<"RealPlaywrightScraper">> ELSE <<>>)
    \o (IF "puppeteer" \in methods THEN <<"RealPuppeteerScraper">> ELSE <<>>)

\* NoScrapers with the check of line 47 left out.
NoScrapersUnchecked(built) == FALSE

\* POST line 47: scrapers.length === 0
NoScrapers(built) == Len(built) = 0

\* scraper.scrapeProduct(productName)
scrapeProduct(scraper, productName, env) ==
    CASE scraper = "ScrapybaraBrowser" -> ScrapybaraBrowser_scrapeProduct(productName, env.r)
      [] scraper = "RealPlaywrightScraper" -> RealPlaywrightScraper_scrapeProduct(productName, env)
      [] OTHER -> RealPuppeteerScraper_scrapeProduct(productName, env)

\* The environments that make a difference to a scraper.
ScraperEnvs(scraper) ==
    IF scraper = "ScrapybaraBrowser"
    THEN {e \in BrowserEnvs : e.launch = "fails"}
    ELSE IF scraper = "RealPlaywrightScraper"
    THEN {e \in BrowserEnvs : e.ocr = Null}
    ELSE {e \in BrowserEnvs : e.page # "noPage"}

\* RunScraper with the catch of lines 100-107 rethrowing instead of logging.
RunScraperRethrows(acc, scraper, productName, outcome) ==
    LET starting == Info(T("Starting intelligent ") \o T(scraper) \o T(" for ") \o productName,
                         NullObject)
    IN  CASE outcome.kind = "return" ->
              [results |-> Append(acc, outcome.data),
               logs |-> <<starting>> \o outcome.logs
                        \o <<Info(T("Intelligent ") \o T(scraper) \o T(" completed for ")
                                  \o productName, NullObject)>>,
               raised |-> FALSE, pending |-> FALSE]
         [] outcome.kind = "throw" ->
              [results |-> acc, logs |-> <<starting>> \o outcome.logs,
               raised |-> TRUE, pending |-> FALSE]
         [] OTHER ->
              [results |-> acc, logs |-> <<starting>> \o outcome.logs,
               raised |-> FALSE, pending |-> TRUE]

\* scrapeProductDataWithFallback lines 95-109: one iteration of the loop over
\* scrapers, given what scraper.scrapeProduct came to.  raised: an error left
\* the loop; pending: the await has not settled.
RunScraper(acc, scraper, productName, outcome) ==
    LET starting == Info(T("Starting intelligent ") \o T(scraper) \o T(" for ") \o productName,
                         NullObject)
    IN  CASE outcome.kind = "return" ->
              [results |-> Append(acc, outcome.data),
               logs |-> <<starting>> \o outcome.logs
                        \o <<Info(T("Intelligent ") \o T(scraper) \o T(" completed for ")
                                  \o productName, NullObject)>>,
               raised |-> FALSE, pending |-> FALSE]
         [] outcome.kind = "throw" ->
              [results |-> acc,
               logs |-> <<starting>> \o outcome.logs
                        \o <<Warn(T("Scraper ") \o T(scraper)
                                  \o T(" had issues, but provided fallback data"),
                                  [product |-> productName, error |-> outcome.error])>>,
               raised |-> FALSE, pending |-> FALSE]
         [] OTHER ->
              [results |-> acc, logs |-> <<starting>> \o outcome.logs,
               raised |-> FALSE, pending |-> TRUE]

\* NeedsFallback with the test of line 112 always taken, and never taken.
NeedsFallbackAlways(acc) == TRUE

NeedsFallbackNever(acc) == FALSE

\* scrapeProductDataWithFallback line 112: results.length === 0
NeedsFallback(acc) == Len(acc) = 0

\* POST's catch (lines 77-87): the entry written and the answer.
CatchLog(message) == Error(T("Error in product comparison"), [error |-> message])

FailureResponse(message, allLogs) ==
    [status |-> 500, error |-> T("Failed to compare products. Check logs for details."),
     details |-> message, logs |-> allLogs]

\* The answers POST gives before any scraper runs (lines 16 and 21-27, 48).
NamesRequiredResponse ==
    [status |-> 400, error |-> T("Both product names are required")]

ApiKeyResponse ==
    [status |-> 500,
     error |-> T("OpenAI API key not configured. Please add OPENAI_API_KEY to your .env file.")]

NoMethodsResponse ==
    [status |-> 400, error |-> T("No valid scraping methods selected")]

NotStarted == [from |-> 0, to |-> -1]

Init ==
    /\ browser = NoBrowser
    /\ component = NoComponent
    /\ apiKey \in BOOLEAN
    /\ request = NoRequest
    /\ pc = "idle"
    /\ scrapers = <<>>
    /\ product = 1
    /\ next = 1
    /\ results = <<>>
    /\ logs \in EarlierLogs
    /\ productData = <<NoRecord, NoRecord>>
    /\ response = NoResponse
    /\ calls = <<>>
    /\ fallbacks = <<0, 0>>
    /\ merges = <<>>
    /\ trail = <<NotStarted, NotStarted>>

\* A client posts a body to /api/compare-products.
Receive(body) ==
    /\ pc = "idle"
    /\ request' = body
    /\ pc' = "received"
    /\ UNCHANGED <<browser, component, apiKey, scrapers, product, next, results, logs, productData,
                   response, calls, fallbacks, merges, trail>>

\* POST lines 12-52: from the body to the first scrapeProductDataWithFallback
\* call, or to the answer that ends the request before it.
POST ==
    /\ pc = "received"
    /\ LET starting == Info(T("Starting product comparison with intelligent browser automation"),
                            [product1 |-> request.product1, product2 |-> request.product2,
                             methods |-> request.methods])
           typeError == T("Cannot read properties of undefined (reading 'includes')")
           built == BuildScrapers(request.methods)
       IN  IF NamesRequired(request.product1, request.product2)
           THEN /\ response' = NamesRequiredResponse
                /\ pc' = "responded"
                /\ UNCHANGED <<logs, scrapers, trail>>
           ELSE IF ~apiKey
           THEN /\ logs' = Append(logs, Error(T("OpenAI API key not configured"), NullObject))
                /\ response' = ApiKeyResponse
                /\ pc' = "responded"
                /\ UNCHANGED <<scrapers, trail>>
           ELSE IF request.methods = NoMethods
           THEN /\ logs' = logs \o <<starting, CatchLog(typeError)>>
                /\ response' = FailureResponse(typeError, logs')
                /\ pc' = "responded"
                /\ UNCHANGED <<scrapers, trail>>
           ELSE IF NoScrapers(built)
           THEN /\ logs' = Append(logs, starting)
                /\ scrapers' = built
                /\ response' = NoMethodsResponse
                /\ pc' = "responded"
                /\ UNCHANGED trail
           ELSE /\ logs' = Append(logs, starting)
                /\ scrapers' = built
                /\ trail' = [trail EXCEPT ![1] = [from |-> Len(logs'), to |-> -1]]
                /\ pc' = "running"
                /\ UNCHANGED response
    /\ UNCHANGED <<browser, component, apiKey, request, product, next, results, productData,
                   calls, fallbacks, merges>>

\* The name scrapeProductDataWithFallback is running for (lines 52-53).
currentName == IF product = 1 THEN request.product1 ELSE request.product2

\* Scrape with a `break` after the first record: the loop stops at the first
\* scraper that returns.
ScrapeStopsAtFirstRecord(env) ==
    /\ pc = "running"
    /\ next <= Len(scrapers)
    /\ env \in ScraperEnvs(scrapers[next])
    /\ LET scraper == scrapers[next]
           outcome == scrapeProduct(scraper, currentName, env)
           step == RunScraper(results, scraper, currentName, outcome)
       IN  /\ calls' = Append(calls, [scraper |-> scraper, productName |-> currentName,
                                      product |-> product, outcome |-> outcome.kind])
           /\ results' = step.results
           /\ logs' = logs \o step.logs
           /\ IF step.pending
              THEN /\ pc' = "pending"
                   /\ UNCHANGED <<next, response>>
              ELSE /\ next' = IF outcome.kind = "return" THEN Len(scrapers) + 1 ELSE next + 1
                   /\ UNCHANGED <<pc, response>>
    /\ UNCHANGED <<browser, component, apiKey, request, scrapers, product, productData,
                   fallbacks, merges, trail>>

\* scrapeProductDataWithFallback lines 95-109: the loop's next iteration, the
\* browsers behaving as env says.
Scrape(env) ==
    /\ pc = "running"
    /\ next <= Len(scrapers)
    /\ env \in ScraperEnvs(scrapers[next])
    /\ LET scraper == scrapers[next]
           outcome == scrapeProduct(scraper, currentName, env)
           step == RunScraper(results, scraper, currentName, outcome)
       IN  /\ calls' = Append(calls, [scraper |-> scraper, productName |-> currentName,
                                      product |-> product, outcome |-> outcome.kind])
           /\ results' = step.results
           /\ IF step.raised
              THEN /\ logs' = logs \o step.logs \o <<CatchLog(outcome.error)>>
                   /\ response' = FailureResponse(outcome.error, logs')
                   /\ pc' = "responded"
                   /\ UNCHANGED next
              ELSE IF step.pending
              THEN /\ logs' = logs \o step.logs
                   /\ pc' = "pending"
                   /\ UNCHANGED <<next, response>>
              ELSE /\ logs' = logs \o step.logs
                   /\ next' = next + 1
                   /\ UNCHANGED <<pc, response>>
    /\ UNCHANGED <<browser, component, apiKey, request, scrapers, product, productData,
                   fallbacks, merges, trail>>

\* scrapeProductDataWithFallback lines 111-117 and the assignment at POST
\* line 52 or 53: the loop is over; the fallback if nothing was collected,
\* the merge, and on to the second product or to the comparison.
Aggregate(rPrice, rRating) ==
    /\ pc = "running"
    /\ next > Len(scrapers)
    /\ LET fallback == NeedsFallback(results)
           collected == IF fallback
                        THEN Append(results, createIntelligentFallback(currentName, rPrice, rRating))
                        ELSE results
       IN  /\ logs' = IF fallback
                      THEN Append(logs, Info(T("Creating intelligent fallback data for ")
                                             \o currentName, NullObject))
                      ELSE logs
           /\ fallbacks' = IF fallback THEN [fallbacks EXCEPT ![product] = @ + 1]
                           ELSE fallbacks
           /\ merges' = Append(merges, collected)
           /\ productData' = [productData EXCEPT ![product] = mergeProductData(collected, currentName)]
           /\ IF product = 1
              THEN /\ trail' = [trail EXCEPT ![1].to = Len(logs'),
                                             ![2] = [from |-> Len(logs'), to |-> -1]]
                   /\ product' = 2
                   /\ next' = 1
                   /\ results' = <<>>
                   /\ UNCHANGED pc
              ELSE /\ trail' = [trail EXCEPT ![2].to = Len(logs')]
                   /\ pc' = "generating"
                   /\ UNCHANGED <<product, next, results>>
    /\ UNCHANGED <<browser, component, apiKey, request, scrapers, response, calls>>

\* generateComparison (lines 196-221) and generateReadme (223-249): the text,
\* or the fixed text and an error entry when generateText rejects.
generateComparison(textOk) ==
    IF textOk
    THEN [text |-> T("${text}"), logs |-> <<>>]
    ELSE [text |-> T("Comparison generation failed. Please try again."),
          logs |-> <<Error(T("Failed to generate comparison"),
                           [error |-> T("${error.message}")])>>]

generateReadme(product1, product2, textOk) ==
    IF textOk
    THEN [text |-> T("${text}"), logs |-> <<>>]
    ELSE [text |-> T("# Product Comparison: ") \o product1.name \o T(" vs ") \o product2.name
                   \o T("\n\nREADME generation failed. Please try again."),
          logs |-> <<Error(T("Failed to generate README"),
                           [error |-> T("${error.message}")])>>]

\* POST lines 55-76: both records are in; the texts, the result and the answer.
Respond(textOk) ==
    /\ pc = "generating"
    /\ LET completed == Info(T("Intelligent browser automation completed"),
                             [product1Features |-> Len(productData[1].features),
                              product2Features |-> Len(productData[2].features)])
           comparison == generateComparison(textOk)
           readme == generateReadme(productData[1], productData[2], textOk)
           got == logs \o <<completed>> \o comparison.logs \o readme.logs
       IN  /\ response' = [status |-> 200, product1 |-> productData[1],
                           product2 |-> productData[2], comparison |-> comparison.text,
                           readme |-> readme.text, logs |-> got]
           /\ logs' = Append(got, Info(T("Product comparison completed successfully"),
                                       NullObject))
    /\ pc' = "responded"
    /\ UNCHANGED <<browser, component, apiKey, request, scrapers, product, next, results, productData,
                   calls, fallbacks, merges, trail>>

Bodies == [product1 : ProductNames, product2 : SecondNames, methods : MethodSets]

Next ==
    \/ \E body \in Bodies : Receive(body)
    \/ POST
    \/ \E env \in BrowserEnvs : Scrape(env)
    \/ \E rPrice \in RandomDraws, rRating \in RandomDraws : Aggregate(rPrice, rRating)
    \/ \E textOk \in BOOLEAN : Respond(textOk)

Spec == Init /\ [][Next]_routeVars

-----------------------------------------------------------------------------
(* mergeProductData on its own: the records are drawn, the merge is applied. *)

\* The longest results sequence drawn.
MaxRecords == 3

\* Records as scrapers and callers hand them over: fields filled, empty ("")
\* or absent.
MergeRecords ==
    {[name |-> T("A"), price |-> T("$10"), rating |-> <<"4", ".", "1", "/", "5", " (a)">>,
      features |-> <<"f1", "f2">>, description |-> T("d1"), availability |-> T("In stock"),
      images |-> <<"i1">>, specifications |-> ("Brand" :> T("a"))],
     [name |-> T("B"), price |-> T("$20"), rating |-> <<"4", ".", "7", "/", "5">>,
      features |-> <<"f2", "f3">>, description |-> T("d2"), availability |-> <<>>,
      images |-> Null, specifications |-> ("Brand" :> T("b")) @@ ("Type" :> T("t"))],
     [name |-> T("C"), price |-> <<>>, rating |-> <<"4", ".", "7", "/", "5", " (c)">>,
      features |-> <<>>, description |-> <<>>, availability |-> T("Sold out"),
      images |-> <<"i2", "i1">>, specifications |-> EmptyObject],
     [name |-> T("D"), price |-> T("$30"), rating |-> T("Rating varies"),
      features |-> <<"f1">>, description |-> T("d4"), availability |-> Null,
      images |-> <<>>, specifications |-> NullObject],
     [name |-> Null, price |-> Null, rating |-> Null,
      features |-> Null, description |-> Null, availability |-> Null,
      images |-> Null, specifications |-> NullObject],
     [name |-> T("F"), price |-> <<>>, rating |-> <<>>,
      features |-> <<"f3", "f3">>, description |-> <<>>, availability |-> <<>>,
      images |-> <<>>, specifications |-> EmptyObject]}

RECURSIVE SeqsUpTo(_, _)
SeqsUpTo(S, n) ==
    IF n = 0 THEN {<<>>}
    ELSE LET shorter == SeqsUpTo(S, n - 1)
         IN  shorter \cup {Append(q, x) : q \in shorter, x \in S}

InitMerge ==
    /\ browser = NoBrowser
    /\ component = NoComponent
    /\ apiKey = TRUE
    /\ request \in [product1 : {WidgetX, Galaxy}, product2 : {WidgetX}, methods : {{}}]
    /\ pc = "merging"
    /\ scrapers = <<>>
    /\ product = 1
    /\ next = 1
    /\ results \in SeqsUpTo(MergeRecords, MaxRecords)
    /\ logs = <<>>
    /\ productData = <<NoRecord, NoRecord>>
    /\ response = NoResponse
    /\ calls = <<>>
    /\ fallbacks = <<0, 0>>
    /\ merges = <<>>
    /\ trail = <<NotStarted, NotStarted>>

\* mergeProductData(results, productName) is called and returns.
Merge ==
    /\ pc = "merging"
    /\ merges' = Append(merges, results)
    /\ productData' = [productData EXCEPT ![1] = mergeProductData(results, currentName)]
    /\ pc' = "merged"
    /\ UNCHANGED <<browser, component, apiKey, request, scrapers, product, next, results, logs,
                   response, calls, fallbacks, trail>>

\* RealPlaywrightScraper.mergeResults(results, productName) is called on the
\* same records and returns.
MergeResults ==
    /\ pc = "merging"
    /\ productData' = [productData EXCEPT
                          ![2] = RealPlaywrightScraper_mergeResults(results, currentName)]
    /\ pc' = "sitesMerged"
    /\ UNCHANGED <<browser, component, apiKey, request, scrapers, product, next, results, logs,
                   response, calls, fallbacks, merges, trail>>

NextMerge == Merge \/ MergeResults

SpecMerge == InitMerge /\ [][NextMerge]_routeVars

-----------------------------------------------------------------------------
(* The merge rules.                                                          *)

\* The places of the records of rs whose field f is filled.
Filled(rs, f) == {i \in DOMAIN rs : rs[i][f] # Null /\ rs[i][f] # <<>>}

\* The least element of a non-empty set of numbers.
Least(S) == CHOOSE i \in S : \A j \in S : i <= j

\* C9: for each of price, availability and description, the merged value is
\* that of the first record in sequence order whose value for the field is
\* non-empty, whatever later records hold, and it is empty only if every
\* record's value is empty.
ScalarFirstNonEmptyWins ==
    pc = "merged" =>
        \A f \in {"price", "availability", "description"} :
            /\ Filled(results, f) # {}
                  => productData[1][f] = results[Least(Filled(results, f))][f]
            /\ Filled(results, f) = {} <=> productData[1][f] = <<>>

\* C9's case: the first record has no price, two later records have different
\* prices, and the merged price is the earlier one's.
LaterPriceIgnored ==
    /\ pc = "merged"
    /\ Len(results) = 3
    /\ ~Truthy(results[1].price)
    /\ Truthy(results[2].price) /\ Truthy(results[3].price)
    /\ results[2].price # results[3].price
    /\ productData[1].price = results[2].price
    /\ Filled(results, "availability") = {3}
    /\ productData[1].availability = results[3].availability

\* The number a rating starts with, in hundredths; 0 when there is none.
RatingNumber(rating) ==
    IF rating = Null \/ rating = <<>> THEN 0
    ELSE LET n == parseFloat(SplitHead(rating, "/"))
         IN  IF n.nan THEN 0 ELSE n.hundredths

\* The earliest of the records of rs with the highest rating number.
HighestRated(rs) ==
    CHOOSE i \in DOMAIN rs :
        \A j \in DOMAIN rs :
            /\ RatingNumber(rs[j].rating) <= RatingNumber(rs[i].rating)
            /\ j < i => RatingNumber(rs[j].rating) < RatingNumber(rs[i].rating)

\* C10: the merged rating is the rating of the record whose parsed leading
\* number is highest among the records of the input, the earliest of them
\* when several share the highest number.
HighestRatingWins ==
    (pc = "merged" /\ \E i \in DOMAIN results : RatingNumber(results[i].rating) > 0)
        => productData[1].rating = results[HighestRated(results)].rating

-----------------------------------------------------------------------------
(* Validation and the strategy runner.                                       *)

\* A name with no character but white space.
IsBlank(name) == name = Null \/ \A i \in DOMAIN name : IsSpace(name[i])

\* A request is in, and these are its names.
Submitted == request # NoRequest

Names == IF Submitted THEN {request.product1, request.product2} ELSE {}

\* C1: a request with a name that is empty or only white space is rejected,
\* and no scrapeProduct call happens for it.
BlankNameNeverScraped ==
    (\E name \in Names : IsBlank(name)) => calls = <<>>

\* The request selects no method that has a scraper.
SelectsNoScraper ==
    /\ Submitted
    /\ request.methods \cap {"scrapybara", "playwright", "puppeteer"} = {}

\* C2: a request none of whose methods maps to a scraper fails before anything
\* runs: no scrapeProduct call, no fallback record, no merge, at any time; its
\* answer is an error, and it is the validation error "No valid scraping
\* methods selected" whenever the checks POST makes first pass (both names
\* given, the API key configured, methods an array).
NoScraperNoWork ==
    (SelectsNoScraper /\ pc # "received") =>
        /\ pc = "responded"
        /\ calls = <<>> /\ fallbacks = <<0, 0>> /\ merges = <<>>
        /\ productData = <<NoRecord, NoRecord>>
        /\ response.status \in {400, 500}
        /\ (apiKey /\ ~NamesRequired(request.product1, request.product2)
              /\ request.methods # NoMethods)
             => response = NoMethodsResponse

\* C2's case: a request for the unknown method "selenium" got the validation
\* error.
UnknownMethodRejected ==
    /\ pc = "responded"
    /\ request.methods = {"selenium"}
    /\ request.product1 = WidgetX /\ request.product2 = WidgetX
    /\ response = NoMethodsResponse

\* C3: the name is validated before any strategy runs as 1 to 100 characters:
\* no name outside that range reaches a scrapeProduct call, and a request
\* whose names are in it (and not blank) is not turned down.
NameLengthValidated ==
    /\ \A i \in DOMAIN calls : Len(calls[i].productName) \in 1..MaxNameLength
    /\ (pc = "responded" /\ apiKey /\ ~SelectsNoScraper
          /\ \A name \in Names : ~IsBlank(name) /\ Len(name) \in 1..MaxNameLength)
         => response.status = 200

\* The scrapeProduct calls of aggregation k, and those of them that returned.
CallsOf(k) == SelectSeq(calls, LAMBDA c : c.product = k)

ReturnedOf(k) == SelectSeq(calls, LAMBDA c : c.product = k /\ c.outcome = "return")

\* Aggregation k (scrapeProductDataWithFallback for product k) has returned.
Done(k) == trail[k].to >= 0

\* C4: once a request is past POST's checks, nothing a scraper does makes its
\* aggregation raise: every aggregation returns a record of the name's, after
\* calling every scraper in order, and the request is answered 200; a step in
\* which scrapeProduct throws appends a warn entry naming the scraper and the
\* error, leaves the accumulator as it was and moves to the next scraper.
FailuresStayInside ==
    /\ [](\A k \in 1..2 : Done(k) =>
            /\ productData[k] # NoRecord
            /\ [i \in 1..Len(CallsOf(k)) |-> CallsOf(k)[i].scraper] = scrapers
            /\ Len(merges[k]) >= Len(ReturnedOf(k)))
    /\ []((pc = "responded" /\ calls # <<>>) => response.status = 200)
    /\ [][(Len(calls') = Len(calls) + 1 /\ calls'[Len(calls')].outcome = "throw") =>
            /\ results' = results
            /\ logs'[Len(logs')].level = "warn"
            /\ logs'[Len(logs')].message =
                   T("Scraper ") \o T(scrapers[next])
                   \o T(" had issues, but provided fallback data")
            /\ logs'[Len(logs')].metadata.product = currentName
            /\ next' = next + 1
            /\ pc' = "running"
            /\ response' = NoResponse]_routeVars

\* C4's case: of two scrapers both threw for the first product; for the
\* second the first threw and the second still ran and returned; the request
\* was answered 200.
AllFailedThenAnswered ==
    /\ pc = "responded"
    /\ response.status = 200
    /\ Len(scrapers) = 2
    /\ Len(calls) = 4
    /\ calls[1].outcome = "throw" /\ calls[2].outcome = "throw"
    /\ calls[3].outcome = "throw" /\ calls[4].outcome = "return"
    /\ request.product1 = WidgetX /\ request.product2 = WidgetX

\* C5: in each aggregation createIntelligentFallback is called only once the
\* loop over the scrapers is over, then once if no scrapeProduct call of the
\* aggregation returned a record and not at all otherwise; mergeProductData
\* is called once per aggregation, with the records returned plus the
\* fallback's, at least one.
FallbackIffNothingCollected ==
    /\ Len(merges) = Cardinality({k \in 1..2 : Done(k)})
    /\ \A k \in 1..2 :
          /\ ~Done(k) => fallbacks[k] = 0
          /\ Done(k) =>
                /\ fallbacks[k] = IF Len(ReturnedOf(k)) = 0 THEN 1 ELSE 0
                /\ Len(merges[k]) = Len(ReturnedOf(k)) + fallbacks[k]
                /\ Len(merges[k]) >= 1

\* C5's case: the first aggregation collected nothing and got the fallback,
\* the second collected a record and got none.
FallbackForFirstOnly ==
    /\ Done(1) /\ Done(2)
    /\ fallbacks = <<1, 0>>
    /\ Len(merges[1]) = 1
    /\ Len(ReturnedOf(1)) = 0 /\ Len(ReturnedOf(2)) >= 1

-----------------------------------------------------------------------------
(* What an aggregation returns and logs.                                     *)

\* The name aggregation k is for.
NameOf(k) == IF k = 1 THEN request.product1 ELSE request.product2

\* The entries written while aggregation k ran.
TrailOf(k) == SubSeq(logs, trail[k].from + 1, trail[k].to)

\* Of those: the warn entries, the warn entries the loop of
\* scrapeProductDataWithFallback wrote, the info entries noting the fallback.
WarnsOf(k) == SelectSeq(TrailOf(k), LAMBDA e : e.level = "warn")

RunnerWarnsOf(k) ==
    SelectSeq(TrailOf(k), LAMBDA e : e.level = "warn" /\ Head(e.message) = "Scraper ")

FallbackInfosOf(k) ==
    SelectSeq(TrailOf(k),
              LAMBDA e : /\ e.level = "info"
                         /\ e.message = T("Creating intelligent fallback data for ") \o NameOf(k))

\* Aggregation k ran two scrapers, both threw, and the name has no keyword of
\* a category.
BothFailed(k) ==
    /\ Done(k)
    /\ Len(scrapers) = 2
    /\ Len(ReturnedOf(k)) = 0
    /\ ~isPhone(NameOf(k))

\* The record is the generic fallback's: every field but images filled.
GenericFallbackRecord(rec, name) ==
    /\ rec.name = name
    /\ rec.price = T("Price varies")
    /\ rec.rating = T("Rating varies")
    /\ rec.features = <<"Product features available", "Check retailer for details">>
    /\ rec.availability = T("Check availability")
    /\ rec.description # <<>> /\ rec.description # Null
    /\ rec.specifications["Data Source"] = T("Intelligent estimation")
    /\ rec.images = <<>>

NoStrategyBlocks ==
    pc = "pending" => ENABLED Next

\* A rating of the form <number>/5, whatever follows.
WellFormedRating(rating) ==
    LET whole == DigitRun(rating)
        rest  == SubSeq(rating, whole + 1, Len(rating))
        frac  == IF rest # <<>> /\ Head(rest) = "."
                 THEN 1 + DigitRun(Tail(rest)) ELSE 0
        tail  == SubSeq(rest, frac + 1, Len(rest))
    IN  /\ whole >= 1
        /\ frac # 1
        /\ Len(tail) >= 2 /\ tail[1] = "/" /\ tail[2] = "5"

\* C8: the record an aggregation returns for a valid name has no rating or
\* one of the form <number>/5...; never a placeholder, never "".
RatingWellFormed ==
    \A k \in 1..2 :
        (Done(k) /\ ~IsBlank(NameOf(k)) /\ Len(NameOf(k)) <= MaxNameLength) =>
            \/ productData[k].rating = Null
            \/ WellFormedRating(productData[k].rating)

-----------------------------------------------------------------------------
(* More merge rules.                                                         *)

\* The rating starts with a number.
RatingParses(rating) ==
    rating # Null /\ rating # <<>> /\ ~parseFloat(SplitHead(rating, "/")).nan

\* C11: in RealPlaywrightScraper.mergeResults a rating whose leading number
\* does not parse counts as 0: when some rating parses the merged rating is
\* one that parses, and when every rating counts as 0 the merged rating is
\* the earliest rating of the sequence, not "".
UnparsedRatingCountsAsZero ==
    (pc = "sitesMerged" /\ Filled(results, "rating") # {}) =>
        /\ (\E i \in DOMAIN results : RatingParses(results[i].rating))
              => RatingParses(productData[2].rating)
        /\ (\A i \in DOMAIN results : RatingNumber(results[i].rating) = 0)
              => productData[2].rating = results[Least(Filled(results, "rating"))].rating

\* The record a merge of the drawn records returned.
MergeReturned == pc \in {"merged", "sitesMerged"}

MergedRecord == IF pc = "merged" THEN productData[1] ELSE productData[2]

\* The strings of field f of the records of rs, in sequence order.
RECURSIVE Strings(_, _)
Strings(rs, f) ==
    IF rs = <<>> THEN <<>>
    ELSE (IF Head(rs)[f] = Null THEN <<>> ELSE Head(rs)[f]) \o Strings(Tail(rs), f)

\* The first place of x in xs.
FirstPlace(xs, x) == Least({i \in DOMAIN xs : xs[i] = x})

\* C12: the merged features, and the merged images, hold exactly the strings
\* that occur in the features (images) of the input records, each once, in
\* the order of their first occurrence across the sequence.
UnionInFirstSeenOrder ==
    MergeReturned =>
        \A f \in {"features", "images"} :
            LET all == Strings(results, f)
                out == MergedRecord[f]
            IN  /\ {out[i] : i \in DOMAIN out} = {all[i] : i \in DOMAIN all}
                /\ \A i, j \in DOMAIN out : i # j => out[i] # out[j]
                /\ \A i, j \in DOMAIN out :
                      i < j => FirstPlace(all, out[i]) < FirstPlace(all, out[j])

\* C12's case: three records, one repeating a feature itself and two sharing
\* an image, merged into three features and two images in first-seen order.
OverlappingFeaturesMerged ==
    /\ pc = "merged"
    /\ Len(results) = 3
    /\ Len(Strings(results, "features")) = 4
    /\ Len(Strings(results, "images")) = 3
    /\ productData[1].features = <<"f3", "f1", "f2">>
    /\ productData[1].images = <<"i2", "i1">>

\* The places of the records of rs that have specifications with key.
WithKey(rs, key) ==
    {i \in DOMAIN rs : rs[i].specifications # NullObject
                       /\ key \in DOMAIN rs[i].specifications}

\* The greatest element of a non-empty set of numbers.
Greatest(S) == CHOOSE i \in S : \A j \in S : j <= i

\* C13: the merged specifications have exactly the keys of the input
\* records' specifications, each with the value of the last record in
\* sequence order that has the key.
SpecificationsLastWriterWins ==
    MergeReturned =>
        /\ DOMAIN MergedRecord.specifications =
              UNION {DOMAIN results[i].specifications :
                        i \in {j \in DOMAIN results : results[j].specifications # NullObject}}
        /\ \A key \in DOMAIN MergedRecord.specifications :
              MergedRecord.specifications[key] =
                  results[Greatest(WithKey(results, key))].specifications[key]

\* C13's case: two records give different values for "Brand"; the later one's
\* is merged, next to a key only one of them has.
LaterBrandOverwrites ==
    /\ pc = "merged"
    /\ Len(results) = 2
    /\ WithKey(results, "Brand") = {1, 2}
    /\ WithKey(results, "Type") = {1}
    /\ results[1].specifications["Brand"] # results[2].specifications["Brand"]
    /\ productData[1].specifications["Brand"] = results[2].specifications["Brand"]
    /\ productData[1].specifications["Type"] = results[1].specifications["Type"]

\* C14: the name of the merged record is the product name the merge was
\* called with, whatever names the records carry.
NameIsTheRequested ==
    MergeReturned => MergedRecord.name = request.product1

\* C14's case: two or more records, each with a name of its own that is not
\* the requested one, merged under the requested name.
OtherNamesIgnored ==
    /\ pc = "merged"
    /\ Len(results) >= 2
    /\ \A i \in DOMAIN results :
          Truthy(results[i].name) /\ results[i].name # request.product1
    /\ productData[1].name = WidgetX

\* C15: mergeProductData called with an empty sequence fails; it does not
\* return a record.
EmptyMergeInputFails ==
    (pc = "merged" /\ merges[1] = <<>>) => productData[1] = NoRecord

-----------------------------------------------------------------------------
(* The order of the scrapeProduct calls and what the runner logs of them.    *)

\* C17: within an aggregation the scrapers are called one after another in
\* the order of POST's scrapers, each at most once: the calls of an
\* aggregation are a prefix of scrapers, all of it once the aggregation has
\* returned, whatever the calls returned or threw; a call is made only when
\* every earlier call has returned or thrown; and the second aggregation's
\* calls come after the first aggregation has returned.
StrategiesRunInOrder ==
    /\ \A i, j \in DOMAIN scrapers : i # j => scrapers[i] # scrapers[j]
    /\ \A k \in 1..2 :
          /\ Len(CallsOf(k)) <= Len(scrapers)
          /\ \A i \in DOMAIN CallsOf(k) : CallsOf(k)[i].scraper = scrapers[i]
          /\ Done(k) => Len(CallsOf(k)) = Len(scrapers)
    /\ \A i \in DOMAIN calls :
          i < Len(calls) => /\ calls[i].outcome # "pending"
                            /\ calls[i].product <= calls[i + 1].product
    /\ CallsOf(2) # <<>> => Done(1)

\* C17's case: three scrapers; for the first product the first returned, the
\* second threw and the third was still called; all three were called again
\* for the second product.
AllThreeCalledTwice ==
    /\ pc = "responded"
    /\ Len(scrapers) = 3
    /\ Len(calls) = 6
    /\ calls[1].outcome = "return" /\ calls[2].outcome = "throw"
    /\ calls[3].product = 1 /\ calls[4].product = 2

\* The entry names the scraper.
Tagged(e, scraper) == \E i \in DOMAIN e.message : e.message[i] = scraper

\* The entries a step appends.
NewEntries == SubSeq(logs', Len(logs) + 1, Len(logs'))

\* A step in which scrapeProduct is called and returns or throws, and the
\* call.
CallCompletes ==
    /\ Len(calls') = Len(calls) + 1
    /\ calls'[Len(calls')].outcome \in {"return", "throw"}

NewCall == calls'[Len(calls')]

-----------------------------------------------------------------------------
(* The logs POST hands to its caller.                                        *)

\* How many entries the logger held when the request came in: POST's first
\* entry of a request that reaches the aggregations is the one before the
\* first aggregation starts.
RequestStart == trail[1].from - 1

\* C19: the logs of the answer to a completed comparison are exactly the
\* entries written for that request, in order: none of an earlier request,
\* and none of the request's own missing.
ResponseLogsAreTheRequests ==
    (pc = "responded" /\ response.status = 200) =>
        response.logs = SubSeq(logs, RequestStart + 1, Len(logs))

-----------------------------------------------------------------------------
(* MaximLogger (lib/maxim-logger.ts) on its own.  logs is this.logs, pc the  *)
(* method called last, response what it returned (NoResponse: undefined).   *)

\* The most entries the logger is given.
MaxLogs == 3

\* getRecentLogs' default limit.
DefaultLimit == 100

\* String(message): a string as it is, a number in decimal.
String(message) ==
    IF message.type = "string" THEN message.value ELSE <<ToString(message.value)>>

\* addLog with a cap on the array: the oldest entry is dropped for the new one.
addLogDropsOldest(l, level, message, metadata) ==
    IF Len(l) >= 2
    THEN Append(Tail(l), LogEntry(level, String(message), metadata))
    ELSE Append(l, LogEntry(level, String(message), metadata))

\* addLog(level, message, metadata): this.logs after the push.
addLog(l, level, message, metadata) ==
    Append(l, LogEntry(level, String(message), metadata))

\* getLogs(): [...this.logs]
getLogs(l) == [i \in 1..Len(l) |-> l[i]]

\* clearLogs(): this.logs = []
clearLogs(l) == <<>>

\* getLogsByLevel(level)
getLogsByLevel(l, level) == SelectSeq(l, LAMBDA log : log.level = level)

\* Array.prototype.slice(start): from start, counted from the end when
\* negative, to the end.
Slice(l, start) ==
    LET len  == Len(l)
        from == IF start < 0 THEN (IF len + start > 0 THEN len + start ELSE 0)
                ELSE (IF start < len THEN start ELSE len)
    IN  SubSeq(l, from + 1, len)

\* getRecentLogs(limit): this.logs.slice(-limit)
getRecentLogs(l, limit) == Slice(l, 0 - limit)

\* getLogsSummary(); an entry's timestamp is its place in the array.
getLogsSummary(l) ==
    [total |-> Len(l),
     info  |-> Len(getLogsByLevel(l, "info")),
     warn  |-> Len(getLogsByLevel(l, "warn")),
     error |-> Len(getLogsByLevel(l, "error")),
     timeRange |-> [start |-> IF Len(l) > 0 THEN <<ToString(1)>> ELSE Null,
                    end   |-> IF Len(l) > 0 THEN <<ToString(Len(l))>> ELSE Null]]

\* exportLogs(): JSON.stringify(this.logs, null, 2), token by token; a
\* metadata that is undefined is left out.
RECURSIVE StringifyEntries(_, _)
StringifyEntries(l, place) ==
    IF place > Len(l) THEN <<>>
    ELSE <<"{", "\"timestamp\": ", ToString(place), "\"level\": ", l[place].level,
           "\"message\": ">> \o l[place].message
         \o <<"\"source\": ", l[place].source>>
         \o (IF l[place].metadata = NullObject THEN <<>>
             ELSE <<"\"metadata\": ", ToString(l[place].metadata)>>)
         \o <<"}">> \o StringifyEntries(l, place + 1)

exportLogs(l) == <<"[">> \o StringifyEntries(l, 1) \o <<"]">>

\* What the logger's callers hand it: a message that is a string or (the
\* annotation is not checked at run time) a number, with or without metadata.
Messages  == {[type |-> "string", value |-> <<"Starting">>], [type |-> "number", value |-> 42]}
Metadatas == {NullObject, [product |-> WidgetX]}
Levels    == {"info", "warn", "error"}
Limits    == {0, 1, 2, DefaultLimit}

loggerOthers == <<browser, component, apiKey, request, scrapers, product, next, results, productData,
                  calls, fallbacks, merges, trail>>

\* new MaximLogger()
InitLogger ==
    /\ browser = NoBrowser
    /\ component = NoComponent
    /\ apiKey = TRUE
    /\ request = NoRequest
    /\ pc = "constructor"
    /\ scrapers = <<>>
    /\ product = 1
    /\ next = 1
    /\ results = <<>>
    /\ logs = <<>>
    /\ productData = <<NoRecord, NoRecord>>
    /\ response = NoResponse
    /\ calls = <<>>
    /\ fallbacks = <<0, 0>>
    /\ merges = <<>>
    /\ trail = <<NotStarted, NotStarted>>

\* info(message, metadata)
LoggerInfo(message, metadata) ==
    /\ Len(logs) < MaxLogs
    /\ logs' = addLog(logs, "info", message, metadata)
    /\ pc' = "info"
    /\ response' = NoResponse
    /\ UNCHANGED loggerOthers

\* warn(message, metadata)
LoggerWarn(message, metadata) ==
    /\ Len(logs) < MaxLogs
    /\ logs' = addLog(logs, "warn", message, metadata)
    /\ pc' = "warn"
    /\ response' = NoResponse
    /\ UNCHANGED loggerOthers

\* error(message, metadata)
LoggerError(message, metadata) ==
    /\ Len(logs) < MaxLogs
    /\ logs' = addLog(logs, "error", message, metadata)
    /\ pc' = "error"
    /\ response' = NoResponse
    /\ UNCHANGED loggerOthers

GetLogs ==
    /\ response' = getLogs(logs)
    /\ pc' = "getLogs"
    /\ UNCHANGED <<logs, loggerOthers>>

ClearLogs ==
    /\ logs' = clearLogs(logs)
    /\ pc' = "clearLogs"
    /\ response' = NoResponse
    /\ UNCHANGED loggerOthers

GetLogsByLevel(level) ==
    /\ response' = getLogsByLevel(logs, level)
    /\ pc' = "getLogsByLevel"
    /\ UNCHANGED <<logs, loggerOthers>>

ExportLogs ==
    /\ response' = exportLogs(logs)
    /\ pc' = "exportLogs"
    /\ UNCHANGED <<logs, loggerOthers>>

GetLogsSummary ==
    /\ response' = getLogsSummary(logs)
    /\ pc' = "getLogsSummary"
    /\ UNCHANGED <<logs, loggerOthers>>

GetRecentLogs(limit) ==
    /\ response' = getRecentLogs(logs, limit)
    /\ pc' = "getRecentLogs"
    /\ UNCHANGED <<logs, loggerOthers>>

\* The views that return an array.
ArrayViews == {"getLogs", "getLogsByLevel", "getRecentLogs"}

\* ReturnsOwnArray with getLogs returning this.logs, not a copy of it.
ReturnsOwnArrayGetLogs(method) == method = "getLogs"

\* Whether the array a view returns is this.logs itself: getLogs spreads,
\* getLogsByLevel filters and getRecentLogs slices into a new array.
ReturnsOwnArray(method) == FALSE

\* The caller of a view pushes to the array it was given, or pops from it.
CallerMutates(push) ==
    /\ pc \in ArrayViews
    /\ push \/ Len(response) > 0
    /\ response' = IF push THEN Append(response, Info(T("pushed by the caller"), NullObject))
                   ELSE SubSeq(response, 1, Len(response) - 1)
    /\ logs' = IF ReturnsOwnArray(pc) THEN response' ELSE logs
    /\ pc' = "caller"
    /\ UNCHANGED loggerOthers

NextLogger ==
    \/ \E push \in BOOLEAN : CallerMutates(push)
    \/ \E message \in Messages, metadata \in Metadatas : LoggerInfo(message, metadata)
    \/ \E message \in Messages, metadata \in Metadatas : LoggerWarn(message, metadata)
    \/ \E message \in Messages, metadata \in Metadatas : LoggerError(message, metadata)
    \/ GetLogs
    \/ ClearLogs
    \/ \E level \in Levels : GetLogsByLevel(level)
    \/ ExportLogs
    \/ GetLogsSummary
    \/ \E limit \in Limits : GetRecentLogs(limit)

SpecLogger == InitLogger /\ [][NextLogger]_routeVars

-----------------------------------------------------------------------------
(* The log only grows.                                                       *)

\* l is the beginning of m.
StartsWith(m, l) == Len(l) <= Len(m) /\ SubSeq(m, 1, Len(l)) = l

\* C20: a step of the logger that is not clearLogs leaves every entry the log
\* held in its place, unchanged: the log is appended to and never reordered,
\* rewritten or shortened by a write or a read.
AppendOnlyUntilCleared == [][pc' = "clearLogs" \/ StartsWith(logs', logs)]_routeVars

\* A full log was read in part and is still whole.
ReadLeftLogWhole ==
    /\ pc = "getRecentLogs"
    /\ Len(logs) = MaxLogs
    /\ Len(response) = 1
    /\ response[1] = logs[MaxLogs]
    /\ logs[1].message = <<"42">>

-----------------------------------------------------------------------------
(* Several requests in flight.  POST is an async function: between two of    *)
(* its awaits it runs alone, so each of its logger calls is one step, and    *)
(* the steps of two requests interleave.  calls holds the logger calls made  *)
(* so far: [request, level, message].                                        *)

\* The requests in flight and the most entries each of them writes.
InFlight == {1, 2}
MaxEmits == 3

\* The logger calls request k has made, in the order it made them.
EmittedBy(k) == SelectSeq(calls, LAMBDA c : c.request = k)

\* The message of request k's n-th logger call.
MessageOf(k, n) == <<"request ", ToString(k), " entry ", ToString(n)>>

InitConcurrent ==
    /\ browser = NoBrowser
    /\ component = NoComponent
    /\ apiKey = TRUE
    /\ request = NoRequest
    /\ pc = "serving"
    /\ scrapers = <<>>
    /\ product = 1
    /\ next = 1
    /\ results = <<>>
    /\ logs = <<>>
    /\ productData = <<NoRecord, NoRecord>>
    /\ response = NoResponse
    /\ calls = <<>>
    /\ fallbacks = <<0, 0>>
    /\ merges = <<>>
    /\ trail = <<NotStarted, NotStarted>>

\* Request k makes its next logger call: logger.info / warn / error(message,
\* { request: k }) runs to its end.
Emit(k, level) ==
    /\ Len(EmittedBy(k)) < MaxEmits
    /\ LET message == MessageOf(k, Len(EmittedBy(k)) + 1)
       IN  /\ logs' = addLog(logs, level, [type |-> "string", value |-> message],
                             [request |-> k])
           /\ calls' = Append(calls, [request |-> k, level |-> level, message |-> message])
    /\ UNCHANGED <<browser, component, apiKey, request, pc, scrapers, product, next, results, productData,
                   response, fallbacks, merges, trail>>

NextConcurrent == \E k \in InFlight, level \in {"info", "warn"} : Emit(k, level)

SpecConcurrent == InitConcurrent /\ [][NextConcurrent]_routeVars

\* The entries of the log that request k wrote.
EntriesOf(k) == SelectSeq(logs, LAMBDA e : e.metadata = [request |-> k])

\* C21: however the logger calls of the requests in flight interleave, the log
\* holds one entry for each call made and no other, and the entries of each
\* request are its calls, in the order it made them.
ConcurrentAppendsAllKept ==
    /\ Len(logs) = Len(calls)
    /\ \A k \in InFlight :
          /\ Len(EntriesOf(k)) = Len(EmittedBy(k))
          /\ \A n \in 1..Len(EntriesOf(k)) :
                /\ EntriesOf(k)[n].message = MessageOf(k, n)
                /\ EntriesOf(k)[n].level = EmittedBy(k)[n].level

\* Both requests wrote all their entries, taking turns.
AppendsInterleaved ==
    /\ Len(logs) = 2 * MaxEmits
    /\ \A i \in 1..Len(logs) : logs[i].metadata = [request |-> IF i % 2 = 1 THEN 2 ELSE 1]

-----------------------------------------------------------------------------
(* The views of the log.                                                     *)

Views == ArrayViews \cup {"getLogsSummary", "exportLogs"}

\* C22: a view leaves the log as it was, and so does a caller that adds to or
\* removes from the array a view returned.
ViewsLeaveLogAlone == [][pc' \in Views \cup {"caller"} => logs' = logs]_routeVars

\* A caller pushed to the copy getLogs returned; the log kept its two entries.
CallerPushedToCopy ==
    /\ pc = "caller"
    /\ Len(logs) = 2
    /\ Len(response) = 3
    /\ SubSeq(response, 1, 2) = logs

-----------------------------------------------------------------------------
(* The most recent entries.                                                  *)

Min(a, b) == IF a < b THEN a ELSE b

\* The last n entries of l, in their order.
LastEntries(l, n) == SubSeq(l, Len(l) - n + 1, Len(l))

\* C23: getRecentLogs(N) returns the last min(N, length) entries of the log in
\* their order, for every N >= 0: never more than N, none for N = 0.
RecentLogsAreTheLastN ==
    [][\A limit \in Limits :
          (pc' = "getRecentLogs" /\ response' = getRecentLogs(logs, limit))
              => response' = LastEntries(logs, Min(limit, Len(logs)))]_routeVars

-----------------------------------------------------------------------------
(* The fallback records on their own: createIntelligentFallback and          *)
(* RealPlaywrightScraper.getIntelligentFallbackData applied to a name.       *)
(* productData[1] is what the first returned, productData[2] the second.     *)

\* The names the fallbacks are given.
FallbackNames ==
    {<<"i","P","h","o","n","e"," ","1","5">>,
     <<"I","P","H","O","N","E"," ","1","5">>,
     <<"g","a","l","a","x","y"," ","s","2","4">>,
     <<"H","e","a","d","p","h","o","n","e","s">>,
     <<"M","a","c","B","o","o","k"," ","P","r","o">>,
     <<"m","a","c","b","o","o","k"," ","p","r","o">>,
     <<"T","h","i","n","k","P","a","d"," ","X","1">>,
     <<"G","a","m","i","n","g"," ","L","A","P","T","O","P">>,
     <<"T","o","a","s","t","e","r">>,
     WidgetX, Galaxy}

\* What Math.random() returns to the fallbacks, in hundredths.
FallbackDraws == {0, 50, 99}

InitFallback ==
    /\ browser = NoBrowser
    /\ component = NoComponent
    /\ apiKey = TRUE
    /\ request \in [product1 : FallbackNames, product2 : {WidgetX}, methods : {{}}]
    /\ pc = "falling back"
    /\ scrapers = <<>>
    /\ product = 1
    /\ next = 1
    /\ results = <<>>
    /\ logs = <<>>
    /\ productData = <<NoRecord, NoRecord>>
    /\ response = NoResponse
    /\ calls = <<>>
    /\ fallbacks = <<0, 0>>
    /\ merges = <<>>
    /\ trail = <<NotStarted, NotStarted>>

\* createIntelligentFallback(productName) is called and returns.
Fallback(rPrice, rRating) ==
    /\ pc = "falling back"
    /\ productData[1] = NoRecord
    /\ productData' = [productData EXCEPT
                          ![1] = createIntelligentFallback(currentName, rPrice, rRating)]
    /\ fallbacks' = [fallbacks EXCEPT ![1] = @ + 1]
    /\ UNCHANGED <<browser, component, apiKey, request, pc, scrapers, product, next, results, logs,
                   response, calls, merges, trail>>

\* getIntelligentFallbackData(productName) is called and returns.
SiteFallback(r) ==
    /\ pc = "falling back"
    /\ productData[2] = NoRecord
    /\ productData' = [productData EXCEPT ![2] = getIntelligentFallbackData(currentName, r)]
    /\ UNCHANGED <<browser, component, apiKey, request, pc, scrapers, product, next, results, logs,
                   response, calls, fallbacks, merges, trail>>

NextFallback ==
    \/ \E rPrice \in FallbackDraws, rRating \in FallbackDraws : Fallback(rPrice, rRating)
    \/ \E r \in FallbackDraws : SiteFallback(r)

SpecFallback == InitFallback /\ [][NextFallback]_routeVars

-----------------------------------------------------------------------------
(* The category of a fallback record.                                        *)

\* name has keyword in it, letter case aside.
ContainsIgnoringCase(name, keyword) ==
    \E i \in 1..Len(name) :
        /\ i + Len(keyword) - 1 <= Len(name)
        /\ \A j \in 1..Len(keyword) : LowerChar(name[i + j - 1]) = keyword[j]

PhoneKeywords  == {<<"p","h","o","n","e">>, <<"i","p","h","o","n","e">>, <<"g","a","l","a","x","y">>}
LaptopKeywords == {<<"l","a","p","t","o","p">>, <<"m","a","c","b","o","o","k">>, <<"t","h","i","n","k","p","a","d">>}

\* The category the keywords give a name; the phone family is looked at first.
CategoryOf(name) ==
    IF \E k \in PhoneKeywords : ContainsIgnoringCase(name, k) THEN "phone"
    ELSE IF \E k \in LaptopKeywords : ContainsIgnoringCase(name, k) THEN "laptop"
    ELSE "generic"

\* The template a fallback record was made from, told by its first feature.
TemplateOf(record) ==
    CASE record.features[1] \in {"Smartphone capabilities", "Advanced camera system"} -> "phone"
      [] record.features[1] = "High-performance processor" -> "laptop"
      [] OTHER -> "generic"

\* C24: a fallback record is made from the template of the category its name's
\* keywords give, letter case aside: phone, laptop, or generic when no keyword
\* is in the name.
FallbackTemplateByKeyword ==
    \A i \in {1, 2} :
        productData[i] # NoRecord => TemplateOf(productData[i]) = CategoryOf(currentName)

\* A field of a record is there and is not empty.
Populated(record, field) ==
    IF field = "specifications"
    THEN DOMAIN record[field] # {}
    ELSE record[field] # Null /\ record[field] # <<>>

\* C25: every field of a fallback record is present and not empty.
FallbackFullyPopulated ==
    \A i \in {1, 2} :
        productData[i] # NoRecord =>
            \A field \in {"name", "price", "rating", "features", "specifications",
                          "availability", "description", "images"} :
                Populated(productData[i], field)

-----------------------------------------------------------------------------
(* The scrapers that drive a browser.                                        *)

BrowserScrapers == {"RealPlaywrightScraper", "RealPuppeteerScraper"}

\* C26: a scrapeProduct call of RealPlaywrightScraper or RealPuppeteerScraper
\* that has ended has returned a record, whatever the browser did: it has not
\* thrown.
AutomationFailureStillReturns ==
    \A i \in DOMAIN calls :
        (calls[i].scraper \in BrowserScrapers /\ calls[i].outcome # "pending") =>
            calls[i].outcome = "return"

-----------------------------------------------------------------------------
(* scrapeProduct of RealPlaywrightScraper and RealPuppeteerScraper, await by *)
(* await, for what it opens and closes.  scrapers holds the one instance     *)
(* looked at, product the number of the call on it (POST calls it for        *)
(* product1, then for product2), next the place in the loop over the sites   *)
(* or vision tasks, calls how each call ended, and browser is                *)
(*   handle  this.browser: 0 for null, n for the browser call n launched     *)
(*   open    the browsers launched and not closed                            *)
(*   pages   per browser, the pages opened in it and not closed              *)

\* POST calls scrapeProduct twice on an instance (lines 52-53).
MaxCalls == 2

\* The sites, or vision tasks, scrapeProduct loops over.
Iterations(scraper) ==
    IF scraper = "RealPlaywrightScraper" THEN Len(PlaywrightSites) ELSE Len(VisionTasks)

InitBrowser ==
    /\ apiKey = TRUE
    /\ request = NoRequest
    /\ pc = "idle"
    /\ scrapers \in {<<scraper>> : scraper \in BrowserScrapers}
    /\ product = 1
    /\ next = 1
    /\ results = <<>>
    /\ logs = <<>>
    /\ productData = <<NoRecord, NoRecord>>
    /\ response = NoResponse
    /\ calls = <<>>
    /\ fallbacks = <<0, 0>>
    /\ merges = <<>>
    /\ trail = <<NotStarted, NotStarted>>
    /\ browser = [handle |-> 0, open |-> {}, pages |-> <<0, 0>>]
    /\ component = NoComponent

browserOthers == <<apiKey, request, scrapers, results, logs, productData, response,
                   fallbacks, merges, trail, component>>

\* scrapeProduct ends: it returns a record ("return") or rejects ("throw").
Ends(how) ==
    /\ calls' = Append(calls, how)
    /\ product' = product + 1
    /\ pc' = "idle"
    /\ next' = 1

\* The try of an iteration is over, by page.close() or by the catch: the
\* delay, then the next site or task, or browser.close() after the last.
IterationOver ==
    /\ IF next < Iterations(scrapers[1])
       THEN next' = next + 1 /\ pc' = "newPage"
       ELSE next' = next /\ pc' = "close"
    /\ UNCHANGED <<calls, product>>

\* scrapeProduct(productName) is called: the name test of the first lines.
Start(blank) ==
    /\ pc = "idle"
    /\ product <= MaxCalls
    /\ pc' = IF blank THEN "catch" ELSE "launch"
    /\ UNCHANGED <<browser, calls, product, next, browserOthers>>

\* this.browser = await launch(...), or its catch: the fallback is returned.
Launch(ok) ==
    /\ pc = "launch"
    /\ IF ok
       THEN /\ browser' = [browser EXCEPT !.handle = product,
                                          !.open = @ \cup {product}]
            /\ pc' = "newPage"
            /\ UNCHANGED <<calls, product, next>>
       ELSE /\ Ends("return")
            /\ UNCHANGED browser
    /\ UNCHANGED browserOthers

\* const page = await this.browser.newPage()
NewPage(ok) ==
    /\ pc = "newPage"
    /\ IF ok
       THEN /\ browser' = [browser EXCEPT !.pages[browser.handle] = @ + 1]
            /\ pc' = "setup"
            /\ UNCHANGED <<calls, product, next>>
       ELSE /\ IterationOver
            /\ UNCHANGED browser
    /\ UNCHANGED browserOthers

\* await page.setUserAgent(...) / await page.setViewport(...)
Setup(ok) ==
    /\ pc = "setup"
    /\ IF ok
       THEN pc' = "work" /\ UNCHANGED <<calls, product, next>>
       ELSE IterationOver
    /\ UNCHANGED <<browser, browserOthers>>

\* await site.scraper.call(...) / task.handler.call(...): each of them
\* catches what its page calls raise and returns a record.
Work ==
    /\ pc = "work"
    /\ pc' = "closePage"
    /\ UNCHANGED <<browser, calls, product, next, browserOthers>>

\* await page.close()
ClosePage(ok) ==
    /\ pc = "closePage"
    /\ browser' = IF ok THEN [browser EXCEPT !.pages[browser.handle] = @ - 1] ELSE browser
    /\ IterationOver
    /\ UNCHANGED browserOthers

\* browser b is closed, and its pages with it.
Closed(b) == [browser EXCEPT !.handle = 0, !.open = @ \ {b}, !.pages[b] = 0]

\* After the loop: await this.browser.close(); this.browser = null; the merged
\* record is returned.
Close(ok) ==
    /\ pc = "close"
    /\ IF ok
       THEN /\ browser' = Closed(browser.handle)
            /\ Ends("return")
       ELSE /\ pc' = "catch"
            /\ UNCHANGED <<browser, calls, product, next>>
    /\ UNCHANGED browserOthers

\* The outer catch: if (this.browser) { await this.browser.close();
\* this.browser = null }, then the fallback is returned.
Catch(ok) ==
    /\ pc = "catch"
    /\ IF browser.handle = 0
       THEN Ends("return") /\ UNCHANGED browser
       ELSE IF ok
       THEN Ends("return") /\ browser' = Closed(browser.handle)
       ELSE Ends("throw") /\ UNCHANGED browser
    /\ UNCHANGED browserOthers

NextBrowser ==
    \/ \E blank \in BOOLEAN : Start(blank)
    \/ \E ok \in BOOLEAN : Launch(ok)
    \/ \E ok \in BOOLEAN : NewPage(ok)
    \/ \E ok \in BOOLEAN : Setup(ok)
    \/ Work
    \/ \E ok \in BOOLEAN : ClosePage(ok)
    \/ \E ok \in BOOLEAN : Close(ok)
    \/ \E ok \in BOOLEAN : Catch(ok)

SpecBrowser == InitBrowser /\ [][NextBrowser]_routeVars

-----------------------------------------------------------------------------
(* What scrapeProduct leaves open.                                           *)

\* C27: when scrapeProduct has returned, this.browser is null and the browser
\* the call launched is closed.
ReturnedWithBrowserClosed ==
    (pc = "idle" /\ Len(calls) > 0 /\ calls[Len(calls)] = "return") =>
        /\ browser.handle = 0
        /\ Len(calls) \notin browser.open

\* C28: at most one page is open at any time, and none when the next site or
\* task is about to open its page.
OnePageAtATime ==
    /\ browser.pages[1] + browser.pages[2] <= 1
    /\ pc = "newPage" => browser.pages[browser.handle] = 0

-----------------------------------------------------------------------------
(* The page component (app/page.tsx) and the route behind it.  component is  *)
(* the component's state, with                                               *)
(*   outcome  how the last handleCompare call went: "none", "started",       *)
(*            "rejected" (an alert before anything was sent), "success",     *)
(*            "failure" (the catch)                                          *)
(* calls holds the fetches in flight, [body, answer], answer being           *)
(* NoResponse until the route has answered, and scrapers the scrapers POST   *)
(* built for the fetch it has answered and the page has not yet handled.     *)

\* validateInput: the least length of a trimmed name.
MinNameLength == 2

NoResult == [absent |-> TRUE]

\* useState(...): the component as it is mounted.
InitialComponent ==
    [product1 |-> <<>>, product2 |-> <<>>, isLoading |-> FALSE, result |-> NoResult,
     activeTab |-> "setup",
     browserMethods |-> <<[id |-> "scrapybara", selected |-> TRUE],
                          [id |-> "playwright", selected |-> TRUE],
                          [id |-> "puppeteer", selected |-> TRUE]>>,
     outcome |-> "none"]

\* What is typed into a name field.
PageNames == {<<>>, <<"a">>, WidgetX, <<" ", "T", "V", " ">>, LongName(MaxNameLength + 1)}
PageSecondNames == {<<>>, Blank, WidgetX}
NamesOfField(k) == IF k = 1 THEN PageNames ELSE PageSecondNames

\* The tabs of the page.
Tabs == {"setup", "progress", "results", "logs", "monitoring"}

\* toggleBrowserMethod(id)
toggleBrowserMethod(c, id) ==
    [c EXCEPT !.browserMethods =
        [i \in DOMAIN c.browserMethods |->
            IF c.browserMethods[i].id = id
            THEN [c.browserMethods[i] EXCEPT !.selected = ~c.browserMethods[i].selected]
            ELSE c.browserMethods[i]]]

\* validateInput(value)
validateInput(value) ==
    Len(trim(value)) >= MinNameLength /\ Len(trim(value)) <= MaxNameLength

\* The Compare button's `disabled` with isLoading left out of it.
CompareDisabledNamesOnly(c) ==
    ~validateInput(c.product1) \/ ~validateInput(c.product2)

\* The Compare button's `disabled`.
CompareDisabled(c) ==
    c.isLoading \/ ~validateInput(c.product1) \/ ~validateInput(c.product2)

\* handleCompare: !product1.trim() || !product2.trim()
NamesMissing(c) == ~Truthy(trim(c.product1)) \/ ~Truthy(trim(c.product2))

\* handleCompare: browserMethods.filter(selected).map(id)
SelectedMethods(c) ==
    LET chosen == SelectSeq(c.browserMethods, LAMBDA method : method.selected)
    IN  [i \in DOMAIN chosen |-> chosen[i].id]

\* NoneSelected with the test left out.
NoneSelectedUnchecked(selectedMethods) == FALSE

\* handleCompare: selectedMethods.length === 0
NoneSelected(selectedMethods) == Len(selectedMethods) = 0

\* The body handleCompare sends; the route reads methods with includes only.
Body(c) ==
    [product1 |-> trim(c.product1), product2 |-> trim(c.product2),
     methods |-> {SelectedMethods(c)[i] : i \in DOMAIN SelectedMethods(c)}]

\* handleCompare returns after an alert, nothing sent.
Rejected(c) == [c EXCEPT !.outcome = "rejected"]

\* handleCompare before the fetch.
Started(c) ==
    [c EXCEPT !.isLoading = TRUE, !.result = NoResult, !.activeTab = "progress",
              !.outcome = "started"]

\* handleCompare's catch and finally.
Failed(c) ==
    [c EXCEPT !.activeTab = "setup", !.isLoading = FALSE, !.outcome = "failure"]

\* handleCompare after an ok answer, and the finally.
Succeeded(c, data) ==
    [c EXCEPT !.result = data, !.activeTab = "results", !.isLoading = FALSE,
              !.outcome = "success"]

\* handleReset()
handleReset(c) ==
    [c EXCEPT !.product1 = <<>>, !.product2 = <<>>, !.result = NoResult,
              !.activeTab = "setup",
              !.browserMethods = [i \in DOMAIN c.browserMethods |->
                                     [c.browserMethods[i] EXCEPT !.selected = TRUE]]]

\* What POST answers to a body: its checks in their order, then the
\* comparison, which succeeds (ok) or ends in POST's catch.
ServerAnswer(body, key, ok) ==
    IF NamesRequired(body.product1, body.product2) THEN NamesRequiredResponse
    ELSE IF ~key THEN ApiKeyResponse
    ELSE IF NoScrapers(BuildScrapers(body.methods)) THEN NoMethodsResponse
    ELSE IF ok THEN [status |-> 200, comparison |-> T("${comparison}")]
    ELSE FailureResponse(T("${error}"), <<>>)

InitPage ==
    /\ apiKey \in BOOLEAN
    /\ request = NoRequest
    /\ pc = "mounted"
    /\ scrapers = <<>>
    /\ product = 1
    /\ next = 1
    /\ results = <<>>
    /\ logs = <<>>
    /\ productData = <<NoRecord, NoRecord>>
    /\ response = NoResponse
    /\ calls = <<>>
    /\ fallbacks = <<0, 0>>
    /\ merges = <<>>
    /\ trail = <<NotStarted, NotStarted>>
    /\ browser = NoBrowser
    /\ component = InitialComponent

pageOthers == <<apiKey, request, pc, product, next, results, logs, productData,
                response, fallbacks, merges, trail, browser>>

\* The fetches in flight without the i-th.
Without(i) == [j \in 1..(Len(calls) - 1) |-> IF j < i THEN calls[j] ELSE calls[j + 1]]

\* onChange of a name field (disabled while loading; on the setup tab).
SetProduct(k, value) ==
    /\ component.activeTab = "setup"
    /\ ~component.isLoading
    /\ component' = IF k = 1 THEN [component EXCEPT !.product1 = value]
                    ELSE [component EXCEPT !.product2 = value]
    /\ UNCHANGED <<scrapers, calls, pageOthers>>

\* onClick of a method card (on the setup tab).
ToggleMethod(id) ==
    /\ component.activeTab = "setup"
    /\ component' = toggleBrowserMethod(component, id)
    /\ UNCHANGED <<scrapers, calls, pageOthers>>

\* onValueChange of the tabs.
SelectTab(tab) ==
    /\ component' = [component EXCEPT !.activeTab = tab]
    /\ UNCHANGED <<scrapers, calls, pageOthers>>

\* onClick of the Reset button (disabled while loading; on the setup tab).
Reset ==
    /\ component.activeTab = "setup"
    /\ ~component.isLoading
    /\ component' = handleReset(component)
    /\ UNCHANGED <<scrapers, calls, pageOthers>>

\* onClick of the Compare button: handleCompare up to its fetch.
Compare ==
    /\ component.activeTab = "setup"
    /\ ~CompareDisabled(component)
    /\ IF NamesMissing(component) \/ NoneSelected(SelectedMethods(component))
       THEN /\ component' = Rejected(component)
            /\ UNCHANGED calls
       ELSE /\ component' = Started(component)
            /\ calls' = Append(calls, [body |-> Body(component), answer |-> NoResponse])
    /\ UNCHANGED <<scrapers, pageOthers>>

\* The route answers the i-th fetch in flight.
ServerAnswers(i, ok) ==
    /\ i \in DOMAIN calls
    /\ calls[i].answer = NoResponse
    /\ LET answer == ServerAnswer(calls[i].body, apiKey, ok)
       IN  /\ calls' = [calls EXCEPT ![i].answer = answer]
           /\ scrapers' = IF answer \in {NamesRequiredResponse, ApiKeyResponse}
                          THEN <<>> ELSE BuildScrapers(calls[i].body.methods)
    /\ UNCHANGED <<component, pageOthers>>

\* fetch, or response.json(), rejects for the i-th fetch in flight.
NetworkError(i) ==
    /\ i \in DOMAIN calls
    /\ component' = Failed(component)
    /\ calls' = Without(i)
    /\ scrapers' = <<>>
    /\ UNCHANGED pageOthers

\* handleCompare goes on with the answer to the i-th fetch.
HandleAnswer(i) ==
    /\ i \in DOMAIN calls
    /\ calls[i].answer # NoResponse
    /\ component' = IF calls[i].answer.status = 200
                    THEN Succeeded(component, calls[i].answer)
                    ELSE Failed(component)
    /\ calls' = Without(i)
    /\ scrapers' = <<>>
    /\ UNCHANGED pageOthers

NextPage ==
    \/ \E k \in {1, 2} : \E value \in NamesOfField(k) : SetProduct(k, value)
    \/ \E id \in {"scrapybara", "playwright", "puppeteer"} : ToggleMethod(id)
    \/ \E tab \in Tabs : SelectTab(tab)
    \/ Reset
    \/ Compare
    \/ \E i \in DOMAIN calls, ok \in BOOLEAN : ServerAnswers(i, ok)
    \/ \E i \in DOMAIN calls : NetworkError(i)
    \/ \E i \in DOMAIN calls : HandleAnswer(i)

SpecPage == InitPage /\ [][NextPage]_routeVars

-----------------------------------------------------------------------------
(* One comparison at a time.                                                 *)

\* handleCompare comes to an outcome in this step.
OutcomeStep ==
    /\ component'.outcome # component.outcome
    /\ component'.outcome \in {"success", "failure", "rejected"}

\* At most one fetch is in flight, isLoading is true exactly while one is, and
\* a fetch is sent only while isLoading is false.
LoadingBracketsRequest ==
    /\ [](Len(calls) <= 1 /\ (component.isLoading <=> Len(calls) = 1))
    /\ [][Len(calls') > Len(calls) => ~component.isLoading]_routeVars

\* C29, as stated: at most one request is in flight and isLoading brackets it;
\* after every outcome of handleCompare isLoading is false, and the tab is
\* results with a result on success, setup with no result on any other
\* outcome (server error, network error, rejected input).
OutcomeLeavesSetupAndNoResult ==
    /\ LoadingBracketsRequest
    /\ [][OutcomeStep =>
            /\ ~component'.isLoading
            /\ IF component'.outcome = "success"
               THEN component'.activeTab = "results" /\ component'.result # NoResult
               ELSE component'.activeTab = "setup" /\ component'.result = NoResult]_routeVars

\* C29, amended: as above, but a rejected input (an alert, nothing sent)
\* leaves the tab and the result as they were.
OutcomeLeavesRejectedAlone ==
    /\ LoadingBracketsRequest
    /\ [][OutcomeStep =>
            /\ ~component'.isLoading
            /\ CASE component'.outcome = "success" ->
                      component'.activeTab = "results" /\ component'.result # NoResult
                 [] component'.outcome = "failure" ->
                      component'.activeTab = "setup" /\ component'.result = NoResult
                 [] OTHER ->
                      /\ component'.activeTab = component.activeTab
                      /\ component'.result = component.result]_routeVars

\* A comparison was refused for want of a method while the result of the
\* comparison before it is still held.
RejectedWithEarlierResult ==
    /\ component.outcome = "rejected"
    /\ component.result # NoResult
    /\ SelectedMethods(component) = <<>>
    /\ ~component.isLoading

-----------------------------------------------------------------------------
(* What the page sends, the route accepts.                                   *)

\* The scraper classes of the methods selected, in the route's order.
ExpectedScrapers(selected) ==
    LET ids == SelectSeq(<<"scrapybara", "playwright", "puppeteer">>,
                         LAMBDA id : id \in selected)
    IN  [i \in DOMAIN ids |->
            CASE ids[i] = "scrapybara" -> "ScrapybaraBrowser"
              [] ids[i] = "playwright" -> "RealPlaywrightScraper"
              [] OTHER -> "RealPuppeteerScraper"]

\* C30: a request the page has sent carries two names and at least one
\* method; the route answers it neither with 'Both product names are
\* required' nor with 'No valid scraping methods selected', and the scrapers
\* it builds are those of the selected methods, in the fixed order.
PageRequestsPassValidation ==
    \A i \in DOMAIN calls :
        /\ Len(calls[i].body.product1) >= MinNameLength
        /\ Len(calls[i].body.product2) >= MinNameLength
        /\ calls[i].body.methods # {}
        /\ calls[i].answer # NoResponse =>
              /\ calls[i].answer \notin {NamesRequiredResponse, NoMethodsResponse}
              /\ calls[i].answer # ApiKeyResponse =>
                    scrapers = ExpectedScrapers(calls[i].body.methods)

\* A padded name was sent trimmed with two methods selected, and the route
\* built their two scrapers and answered 200.
TrimmedRequestAccepted ==
    /\ Len(calls) = 1
    /\ calls[1].body.product1 = <<"T", "V">>
    /\ calls[1].answer # NoResponse
    /\ calls[1].answer.status = 200
    /\ scrapers = <<"ScrapybaraBrowser", "RealPuppeteerScraper">>

=============================================================================
